---- MODULE Spec2Model ----
(***************************************************************************)
(* Model of internal/beads (attachment overlay codec, attach/detach state  *)
(* machine, detach audit log) and of the events package (event log).       *)
(*                                                                         *)
(* Text is modelled at the character level: a Go string is a sequence of   *)
(* one-character strings, "" is << >>.                                     *)
(***************************************************************************)
EXTENDS Integers, Sequences, FiniteSets, TLC

(***************************************************************************)
(* strings package                                                         *)
(***************************************************************************)
NL == "\n"

\* unicode.IsSpace restricted to the ASCII white space the model's texts use.
IsSpace(c) == c \in {" ", "\t", "\r", "\n"}

UpperLetters == <<"A","B","C","D","E","F","G","H","I","J","K","L","M",
                  "N","O","P","Q","R","S","T","U","V","W","X","Y","Z">>
LowerLetters == <<"a","b","c","d","e","f","g","h","i","j","k","l","m",
                  "n","o","p","q","r","s","t","u","v","w","x","y","z">>

\* strings.Index(s, c) for a one-character c: 0-based index of the first
\* occurrence, -1 when absent.
Index(s, c) ==
    IF \E i \in 1..Len(s) : s[i] = c
    THEN (CHOOSE i \in 1..Len(s) : s[i] = c /\ \A j \in 1..(i-1) : s[j] # c) - 1
    ELSE -1

\* unicode.ToLower on the ASCII letters
ToLowerChar(c) ==
    LET i == Index(UpperLetters, c)
    IN  IF i = -1 THEN c ELSE LowerLetters[i + 1]

\* A key compared as written: no strings.ToLower.
ToLowerNone(s) == s

\* strings.ToLower
ToLower(s) == [i \in 1..Len(s) |-> ToLowerChar(s[i])]

\* Go slice expressions s[:i] and s[i:] with 0-based i.
SliceTo(s, i) == SubSeq(s, 1, i)
SliceFrom(s, i) == SubSeq(s, i + 1, Len(s))

\* strings.TrimSpace
TrimSpace(s) ==
    IF \A i \in 1..Len(s) : IsSpace(s[i])
    THEN << >>
    ELSE LET first == CHOOSE i \in 1..Len(s) :
                          ~IsSpace(s[i]) /\ \A j \in 1..(i-1) : IsSpace(s[j])
             last  == CHOOSE i \in 1..Len(s) :
                          ~IsSpace(s[i]) /\ \A j \in (i+1)..Len(s) : IsSpace(s[j])
         IN  SubSeq(s, first, last)

\* strings.Split(s, "\n"): always at least one element; "" splits to <<"">>.
RECURSIVE Split(_)
Split(s) ==
    LET i == Index(s, NL)
    IN  IF i = -1 THEN <<s>>
        ELSE <<SliceTo(s, i)>> \o Split(SliceFrom(s, i + 1))

\* strings.Join(lines, sep)
RECURSIVE Join(_, _)
Join(lines, sep) ==
    IF Len(lines) = 0 THEN << >>
    ELSE IF Len(lines) = 1 THEN lines[1]
    ELSE lines[1] \o sep \o Join(Tail(lines), sep)

(***************************************************************************)
(* String literals of beads.go (keys of the two overlay schemas)           *)
(***************************************************************************)
k_attached_molecule == <<"a","t","t","a","c","h","e","d","_","m","o","l","e","c","u","l","e">>
k_attached_dash_molecule == <<"a","t","t","a","c","h","e","d","-","m","o","l","e","c","u","l","e">>
k_attachedmolecule == <<"a","t","t","a","c","h","e","d","m","o","l","e","c","u","l","e">>
k_attached_at == <<"a","t","t","a","c","h","e","d","_","a","t">>
k_attached_dash_at == <<"a","t","t","a","c","h","e","d","-","a","t">>
k_attachedat == <<"a","t","t","a","c","h","e","d","a","t">>
k_attached_args == <<"a","t","t","a","c","h","e","d","_","a","r","g","s">>
k_attached_dash_args == <<"a","t","t","a","c","h","e","d","-","a","r","g","s">>
k_attachedargs == <<"a","t","t","a","c","h","e","d","a","r","g","s">>
k_branch == <<"b","r","a","n","c","h">>
k_target == <<"t","a","r","g","e","t">>
k_source_issue == <<"s","o","u","r","c","e","_","i","s","s","u","e">>
k_source_dash_issue == <<"s","o","u","r","c","e","-","i","s","s","u","e">>
k_sourceissue == <<"s","o","u","r","c","e","i","s","s","u","e">>
k_worker == <<"w","o","r","k","e","r">>
k_rig == <<"r","i","g">>
k_merge_commit == <<"m","e","r","g","e","_","c","o","m","m","i","t">>
k_merge_dash_commit == <<"m","e","r","g","e","-","c","o","m","m","i","t">>
k_mergecommit == <<"m","e","r","g","e","c","o","m","m","i","t">>
k_close_reason == <<"c","l","o","s","e","_","r","e","a","s","o","n">>
k_close_dash_reason == <<"c","l","o","s","e","-","r","e","a","s","o","n">>
k_closereason == <<"c","l","o","s","e","r","e","a","s","o","n">>

ColonSpace == <<":", " ">>

(***************************************************************************)
(* Issue (the fields this core reads) and *Issue                           *)
(***************************************************************************)
MkIssue(id, status, desc) ==
    [isNil |-> FALSE, ID |-> id, Status |-> status, Description |-> desc]

NilIssue == [isNil |-> TRUE, ID |-> "", Status |-> "", Description |-> << >>]

(***************************************************************************)
(* AttachmentFields and *AttachmentFields                                  *)
(***************************************************************************)
MkAttachmentFields(mol, at, args) ==
    [isNil |-> FALSE, AttachedMolecule |-> mol, AttachedAt |-> at,
     AttachedArgs |-> args]

NilAttachmentFields ==
    [isNil |-> TRUE, AttachedMolecule |-> << >>, AttachedAt |-> << >>,
     AttachedArgs |-> << >>]

\* ParseAttachmentLine taking the value as it stands after the colon, the
\* strings.TrimSpace of the value forgotten.
ParseAttachmentLineNoTrim(acc, rawLine) ==
    LET line     == TrimSpace(rawLine)
        colonIdx == Index(line, ":")
        key      == TrimSpace(SliceTo(line, colonIdx))
        value    == SliceFrom(line, colonIdx + 1)
        k        == ToLower(key)
    IN  IF line = << >> THEN acc
        ELSE IF colonIdx = -1 THEN acc
        ELSE IF value = << >> THEN acc
        ELSE IF k \in {k_attached_molecule, k_attached_dash_molecule, k_attachedmolecule}
             THEN [fields |-> [acc.fields EXCEPT !.AttachedMolecule = value],
                   hasFields |-> TRUE]
        ELSE IF k \in {k_attached_at, k_attached_dash_at, k_attachedat}
             THEN [fields |-> [acc.fields EXCEPT !.AttachedAt = value],
                   hasFields |-> TRUE]
        ELSE IF k \in {k_attached_args, k_attached_dash_args, k_attachedargs}
             THEN [fields |-> [acc.fields EXCEPT !.AttachedArgs = value],
                   hasFields |-> TRUE]
        ELSE acc

\* ParseAttachmentLine keeping the first value a field was given.
ParseAttachmentLineFirstWins(acc, rawLine) ==
    LET line     == TrimSpace(rawLine)
        colonIdx == Index(line, ":")
        key      == TrimSpace(SliceTo(line, colonIdx))
        value    == TrimSpace(SliceFrom(line, colonIdx + 1))
        k        == ToLower(key)
        Keep(old) == IF old = << >> THEN value ELSE old
    IN  IF line = << >> THEN acc
        ELSE IF colonIdx = -1 THEN acc
        ELSE IF value = << >> THEN acc
        ELSE IF k \in {k_attached_molecule, k_attached_dash_molecule, k_attachedmolecule}
             THEN [fields |-> [acc.fields EXCEPT !.AttachedMolecule = Keep(@)],
                   hasFields |-> TRUE]
        ELSE IF k \in {k_attached_at, k_attached_dash_at, k_attachedat}
             THEN [fields |-> [acc.fields EXCEPT !.AttachedAt = Keep(@)],
                   hasFields |-> TRUE]
        ELSE IF k \in {k_attached_args, k_attached_dash_args, k_attachedargs}
             THEN [fields |-> [acc.fields EXCEPT !.AttachedArgs = Keep(@)],
                   hasFields |-> TRUE]
        ELSE acc

\* ParseAttachmentLine without the "if value == \"\" { continue }".
ParseAttachmentLineKeepEmpty(acc, rawLine) ==
    LET line     == TrimSpace(rawLine)
        colonIdx == Index(line, ":")
        key      == TrimSpace(SliceTo(line, colonIdx))
        value    == TrimSpace(SliceFrom(line, colonIdx + 1))
        k        == ToLower(key)
    IN  IF line = << >> THEN acc
        ELSE IF colonIdx = -1 THEN acc
        ELSE IF k \in {k_attached_molecule, k_attached_dash_molecule, k_attachedmolecule}
             THEN [fields |-> [acc.fields EXCEPT !.AttachedMolecule = value],
                   hasFields |-> TRUE]
        ELSE IF k \in {k_attached_at, k_attached_dash_at, k_attachedat}
             THEN [fields |-> [acc.fields EXCEPT !.AttachedAt = value],
                   hasFields |-> TRUE]
        ELSE IF k \in {k_attached_args, k_attached_dash_args, k_attachedargs}
             THEN [fields |-> [acc.fields EXCEPT !.AttachedArgs = value],
                   hasFields |-> TRUE]
        ELSE acc

\* One iteration of the loop of ParseAttachmentFields over a line.
\* acc = [fields, hasFields].
ParseAttachmentLine(acc, rawLine) ==
    LET line     == TrimSpace(rawLine)
        colonIdx == Index(line, ":")
        key      == TrimSpace(SliceTo(line, colonIdx))
        value    == TrimSpace(SliceFrom(line, colonIdx + 1))
        k        == ToLower(key)
    IN  IF line = << >> THEN acc
        ELSE IF colonIdx = -1 THEN acc
        ELSE IF value = << >> THEN acc
        ELSE IF k \in {k_attached_molecule, k_attached_dash_molecule, k_attachedmolecule}
             THEN [fields |-> [acc.fields EXCEPT !.AttachedMolecule = value],
                   hasFields |-> TRUE]
        ELSE IF k \in {k_attached_at, k_attached_dash_at, k_attachedat}
             THEN [fields |-> [acc.fields EXCEPT !.AttachedAt = value],
                   hasFields |-> TRUE]
        ELSE IF k \in {k_attached_args, k_attached_dash_args, k_attachedargs}
             THEN [fields |-> [acc.fields EXCEPT !.AttachedArgs = value],
                   hasFields |-> TRUE]
        ELSE acc

RECURSIVE ParseAttachmentLoop(_, _, _)
ParseAttachmentLoop(lines, i, acc) ==
    IF i > Len(lines) THEN acc
    ELSE ParseAttachmentLoop(lines, i + 1, ParseAttachmentLine(acc, lines[i]))

ParseAttachmentFields(issue) ==
    IF issue.isNil \/ issue.Description = << >> THEN NilAttachmentFields
    ELSE LET r == ParseAttachmentLoop(Split(issue.Description), 1,
                      [fields |-> MkAttachmentFields(<< >>, << >>, << >>),
                       hasFields |-> FALSE])
         IN  IF ~r.hasFields THEN NilAttachmentFields ELSE r.fields

\* FormatAttachmentFields writing its lines in alphabetical order of the keys.
FormatAttachmentFieldsAlphabetical(fields) ==
    IF fields.isNil THEN << >>
    ELSE LET l1 == IF fields.AttachedMolecule # << >>
                   THEN <<k_attached_molecule \o ColonSpace \o fields.AttachedMolecule>>
                   ELSE << >>
             l2 == IF fields.AttachedAt # << >>
                   THEN <<k_attached_at \o ColonSpace \o fields.AttachedAt>>
                   ELSE << >>
             l3 == IF fields.AttachedArgs # << >>
                   THEN <<k_attached_args \o ColonSpace \o fields.AttachedArgs>>
                   ELSE << >>
         IN  Join(l3 \o l2 \o l1, <<NL>>)

FormatAttachmentFields(fields) ==
    IF fields.isNil THEN << >>
    ELSE LET l1 == IF fields.AttachedMolecule # << >>
                   THEN <<k_attached_molecule \o ColonSpace \o fields.AttachedMolecule>>
                   ELSE << >>
             l2 == IF fields.AttachedAt # << >>
                   THEN <<k_attached_at \o ColonSpace \o fields.AttachedAt>>
                   ELSE << >>
             l3 == IF fields.AttachedArgs # << >>
                   THEN <<k_attached_args \o ColonSpace \o fields.AttachedArgs>>
                   ELSE << >>
         IN  Join(l1 \o l2 \o l3, <<NL>>)

\* attachmentKeys with the canonical names only, the aliases forgotten.
attachmentKeysCanonical == {k_attached_molecule, k_attached_at, k_attached_args}

\* attachmentKeys without the attached_args entries.
attachmentKeysNoArgs ==
    {k_attached_molecule, k_attached_dash_molecule, k_attachedmolecule,
     k_attached_at, k_attached_dash_at, k_attachedat}

\* The map literal attachmentKeys of SetAttachmentFields.
attachmentKeys ==
    {k_attached_molecule, k_attached_dash_molecule, k_attachedmolecule,
     k_attached_at, k_attached_dash_at, k_attachedat,
     k_attached_args, k_attached_dash_args, k_attachedargs}

\* CollectOtherLine keeping the trimmed line in place of the line itself.
CollectOtherLineTrimmed(otherLines, line, keys) ==
    LET trimmed  == TrimSpace(line)
        colonIdx == Index(trimmed, ":")
        key      == ToLower(TrimSpace(SliceTo(trimmed, colonIdx)))
    IN  IF trimmed = << >> THEN Append(otherLines, trimmed)
        ELSE IF colonIdx = -1 THEN Append(otherLines, trimmed)
        ELSE IF key \notin keys THEN Append(otherLines, trimmed)
        ELSE otherLines

\* CollectOtherLine comparing the key as written, without strings.ToLower.
CollectOtherLineCaseSensitive(otherLines, line, keys) ==
    LET trimmed  == TrimSpace(line)
        colonIdx == Index(trimmed, ":")
        key      == TrimSpace(SliceTo(trimmed, colonIdx))
    IN  IF trimmed = << >> THEN Append(otherLines, line)
        ELSE IF colonIdx = -1 THEN Append(otherLines, line)
        ELSE IF key \notin keys THEN Append(otherLines, line)
        ELSE otherLines

\* The body of the line loop shared (as duplicated code) by SetAttachmentFields
\* and SetMRFields: otherLines after looking at one line.
CollectOtherLine(otherLines, line, keys) ==
    LET trimmed  == TrimSpace(line)
        colonIdx == Index(trimmed, ":")
        key      == ToLower(TrimSpace(SliceTo(trimmed, colonIdx)))
    IN  IF trimmed = << >> THEN Append(otherLines, line)
        ELSE IF colonIdx = -1 THEN Append(otherLines, line)
        ELSE IF key \notin keys THEN Append(otherLines, line)
        ELSE otherLines

RECURSIVE CollectOtherLines(_, _, _, _)
CollectOtherLines(lines, i, otherLines, keys) ==
    IF i > Len(lines) THEN otherLines
    ELSE CollectOtherLines(lines, i + 1,
                           CollectOtherLine(otherLines, lines[i], keys), keys)

\* for len(otherLines) > 0 && TrimSpace(otherLines[len-1]) == "" { drop last }
RECURSIVE TrimTrailingBlank(_)
TrimTrailingBlank(otherLines) ==
    IF Len(otherLines) > 0 /\ TrimSpace(otherLines[Len(otherLines)]) = << >>
    THEN TrimTrailingBlank(SubSeq(otherLines, 1, Len(otherLines) - 1))
    ELSE otherLines

\* SetAttachmentFields without the loop that trims leading blank lines.
TrimLeadingBlankNone(otherLines) == otherLines

\* for len(otherLines) > 0 && TrimSpace(otherLines[0]) == "" { drop first }
RECURSIVE TrimLeadingBlank(_)
TrimLeadingBlank(otherLines) ==
    IF Len(otherLines) > 0 /\ TrimSpace(otherLines[1]) = << >>
    THEN TrimLeadingBlank(Tail(otherLines))
    ELSE otherLines

\* BuildDescription putting the other content first and the formatted block
\* after it.
BuildDescriptionOverlayLast(formatted, collected) ==
    LET otherLines == TrimLeadingBlank(TrimTrailingBlank(collected))
    IN  IF formatted = << >> THEN Join(otherLines, <<NL>>)
        ELSE IF Len(otherLines) = 0 THEN formatted
        ELSE Join(otherLines, <<NL>>) \o <<NL, NL>> \o formatted

\* The tail of SetAttachmentFields / SetMRFields: assemble the description.
BuildDescription(formatted, collected) ==
    LET otherLines == TrimLeadingBlank(TrimTrailingBlank(collected))
    IN  IF formatted = << >> THEN Join(otherLines, <<NL>>)
        ELSE IF Len(otherLines) = 0 THEN formatted
        ELSE formatted \o <<NL, NL>> \o Join(otherLines, <<NL>>)

SetAttachmentFields(issue, fields) ==
    LET collected ==
            IF ~issue.isNil /\ issue.Description # << >>
            THEN CollectOtherLines(Split(issue.Description), 1, << >>, attachmentKeys)
            ELSE << >>
    IN  BuildDescription(FormatAttachmentFields(fields), collected)

(***************************************************************************)
(* MRFields and *MRFields                                                  *)
(***************************************************************************)
MkMRFields(branch, target, sourceIssue, worker, rig, mergeCommit, closeReason) ==
    [isNil |-> FALSE, Branch |-> branch, Target |-> target,
     SourceIssue |-> sourceIssue, Worker |-> worker, Rig |-> rig,
     MergeCommit |-> mergeCommit, CloseReason |-> closeReason]

EmptyMRFields == MkMRFields(<< >>, << >>, << >>, << >>, << >>, << >>, << >>)

NilMRFields == [EmptyMRFields EXCEPT !.isNil = TRUE]

\* One iteration of the loop of ParseMRFields over a line.
ParseMRLine(acc, rawLine) ==
    LET line     == TrimSpace(rawLine)
        colonIdx == Index(line, ":")
        key      == TrimSpace(SliceTo(line, colonIdx))
        value    == TrimSpace(SliceFrom(line, colonIdx + 1))
        k        == ToLower(key)
    IN  IF line = << >> THEN acc
        ELSE IF colonIdx = -1 THEN acc
        ELSE IF value = << >> THEN acc
        ELSE IF k \in {k_branch}
             THEN [fields |-> [acc.fields EXCEPT !.Branch = value], hasFields |-> TRUE]
        ELSE IF k \in {k_target}
             THEN [fields |-> [acc.fields EXCEPT !.Target = value], hasFields |-> TRUE]
        ELSE IF k \in {k_source_issue, k_source_dash_issue, k_sourceissue}
             THEN [fields |-> [acc.fields EXCEPT !.SourceIssue = value], hasFields |-> TRUE]
        ELSE IF k \in {k_worker}
             THEN [fields |-> [acc.fields EXCEPT !.Worker = value], hasFields |-> TRUE]
        ELSE IF k \in {k_rig}
             THEN [fields |-> [acc.fields EXCEPT !.Rig = value], hasFields |-> TRUE]
        ELSE IF k \in {k_merge_commit, k_merge_dash_commit, k_mergecommit}
             THEN [fields |-> [acc.fields EXCEPT !.MergeCommit = value], hasFields |-> TRUE]
        ELSE IF k \in {k_close_reason, k_close_dash_reason, k_closereason}
             THEN [fields |-> [acc.fields EXCEPT !.CloseReason = value], hasFields |-> TRUE]
        ELSE acc

RECURSIVE ParseMRLoop(_, _, _)
ParseMRLoop(lines, i, acc) ==
    IF i > Len(lines) THEN acc
    ELSE ParseMRLoop(lines, i + 1, ParseMRLine(acc, lines[i]))

ParseMRFields(issue) ==
    IF issue.isNil \/ issue.Description = << >> THEN NilMRFields
    ELSE LET r == ParseMRLoop(Split(issue.Description), 1,
                      [fields |-> EmptyMRFields, hasFields |-> FALSE])
         IN  IF ~r.hasFields THEN NilMRFields ELSE r.fields

\* if value != "" { lines = append(lines, name+": "+value) }
FormatLine(name, value) ==
    IF value # << >> THEN <<name \o ColonSpace \o value>> ELSE << >>

FormatMRFields(fields) ==
    IF fields.isNil THEN << >>
    ELSE Join(FormatLine(k_branch, fields.Branch)
              \o FormatLine(k_target, fields.Target)
              \o FormatLine(k_source_issue, fields.SourceIssue)
              \o FormatLine(k_worker, fields.Worker)
              \o FormatLine(k_rig, fields.Rig)
              \o FormatLine(k_merge_commit, fields.MergeCommit)
              \o FormatLine(k_close_reason, fields.CloseReason), <<NL>>)

\* The map literal mrKeys of SetMRFields.
mrKeys ==
    {k_branch, k_target, k_source_issue, k_source_dash_issue, k_sourceissue,
     k_worker, k_rig, k_merge_commit, k_merge_dash_commit, k_mergecommit,
     k_close_reason, k_close_dash_reason, k_closereason}

SetMRFields(issue, fields) ==
    IF issue.isNil THEN FormatMRFields(fields)
    ELSE LET collected ==
                 IF issue.Description # << >>
                 THEN CollectOtherLines(Split(issue.Description), 1, << >>, mrKeys)
                 ELSE << >>
         IN  BuildDescription(FormatMRFields(fields), collected)

(***************************************************************************)
(* Bounds and inputs of the attach/detach state machine                    *)
(***************************************************************************)
MaxClock == 1      \* the clock runs from 0 to MaxClock
MaxCalls == 2      \* calls one caller makes in sequence
MaxFaults == 1     \* collaborator failures injected in one behaviour

Procs == {"p1", "p2"}

\* Callers are interchangeable: the one that makes the first call of a
\* behaviour is named p1.
FirstCaller == "p1"

StatusPinned == "pinned"

PinnedID == "gt-1"

M1 == <<"g","t","-","4","2">>
M2 == <<"g","t","-","7">>
MoleculeIDs == {M1, M2}

Digits == <<"0","1","2","3","4","5","6","7","8","9">>

\* currentTimestamp(): time.Now().UTC().Format(time.RFC3339) at clock value n,
\* shortened to "T0:<n>" (an RFC 3339 time contains colons).
currentTimestamp(n) == <<"T", "0", ":", Digits[n + 1]>>

Line(key, sep, value) == key \o sep \o value
Text(lines) == Join(lines, <<NL>>)

k_Attached_dash_Molecule ==
    <<"A","t","t","a","c","h","e","d","-","M","o","l","e","c","u","l","e">>
k_ATTACHEDAT == <<"A","T","T","A","C","H","E","D","A","T">>
Prose == <<"f","i","x"," ","i","t">>
OtherKeyLine == <<"n","o","t","e",":"," ","x">>
Args == <<"-","-","f","a","s","t">>

\* Descriptions a pinned bead can carry when the first call starts.
DescEmpty == << >>
DescProse == Prose
DescCanonical ==
    Text(<<Line(k_attached_molecule, ColonSpace, M1),
           Line(k_attached_at, ColonSpace, currentTimestamp(0))>>)
DescAlias ==
    Text(<<Line(k_Attached_dash_Molecule, <<":">>, M2), << >>, Prose>>)
DescScattered ==
    Text(<<Prose,
           Line(k_ATTACHEDAT, <<" ", ":", " ">>, currentTimestamp(0)),
           Line(<<" ">> \o k_attached_molecule, ColonSpace, M1),
           Line(k_attachedmolecule, ColonSpace, M2)>>)
DescWithArgs ==
    Text(<<Line(k_attached_molecule, ColonSpace, M1),
           Line(k_attached_at, ColonSpace, currentTimestamp(0)),
           Line(k_attached_args, ColonSpace, Args),
           << >>, OtherKeyLine, << >>, <<" ">> \o Prose>>)
DescArgsOnly == Text(<<Line(k_attached_args, ColonSpace, Args)>>)
DescEmptyValue ==
    Text(<<Line(k_attached_molecule, <<":">>, <<" ">>), Prose>>)

DescNotes == Text(<<OtherKeyLine, << >>, <<" ">> \o Prose>>)
DescBlankEdge == Text(<<Prose, <<" ">>>>)

Descriptions ==
    {DescEmpty, DescProse, DescCanonical, DescAlias, DescScattered,
     DescWithArgs, DescArgsOnly, DescEmptyValue, DescNotes, DescBlankEdge}

\* The records the store can hold when the first call starts: pinned beads,
\* and beads of another status with and without an overlay.
Records ==
    [Status : {StatusPinned}, Description : Descriptions]
    \cup [Status : {"open"}, Description : {DescProse, DescCanonical}]

(***************************************************************************)
(* DetachOptions, DetachAuditEntry, errors                                 *)
(***************************************************************************)
MkDetachOptions(operation, agent, reason) ==
    [Operation |-> operation, Agent |-> agent, Reason |-> reason]

DetachOptionsSet ==
    {MkDetachOptions(o, "mayor", "") : o \in {"", "burn"}}

NoOptions == MkDetachOptions("", "", "")

NoEntry ==
    [Timestamp |-> << >>, Operation |-> "", PinnedBeadID |-> "",
     DetachedMolecule |-> << >>, DetachedBy |-> "", Reason |-> "",
     PreviousState |-> ""]

\* error values: nil, and fmt.Errorf results as [msg, status].
ErrNil == [msg |-> "nil", status |-> ""]
ErrFetching == [msg |-> "fetching pinned bead", status |-> ""]
ErrNotPinned(status) == [msg |-> "is not pinned", status |-> status]
ErrUpdating == [msg |-> "updating pinned bead", status |-> ""]
ErrShow == [msg |-> "bd show", status |-> ""]

VARIABLES
    store,          \* the record PinnedID in the record store: [Status, Description]
    original,       \* the description of the record before the first call
    auditLog,       \* .beads/audit.log: the entries appended, in file order
    auditFs,        \* whether <workDir>/.beads and the file audit.log in it exist
    now,            \* the wall clock, as last read
    proc,           \* per caller: position in its call, locals, results
    foreignWrite,   \* per caller: another caller's Update succeeded since its own
    calls,          \* per caller: calls started so far
    faults,         \* collaborator failures injected so far
    codec,          \* a caller of the codec functions: registers and calls made
    eventsFile,     \* <townRoot>/.events.jsonl: whether it exists, its bytes
    mutex,          \* the package variable mutex of events: its holder
    thread          \* per goroutine calling events.Log: position and locals

beadsVars ==
    <<store, original, auditLog, auditFs, now, proc, foreignWrite, calls, faults>>
codecVars == <<codec>>
logVars == <<eventsFile, mutex, thread>>

vars == <<store, original, auditLog, auditFs, now, proc, foreignWrite, calls,
          faults, codec, eventsFile, mutex, thread>>

\* What a caller remembers of its previous call.
NoPrev ==
    [op |-> "none", ok |-> FALSE, moleculeID |-> << >>, left |-> << >>,
     nUpdates |-> 0, nAppendCalls |-> 0, failed |-> {}, logBefore |-> 0,
     dirty |-> FALSE]

\* pc: "idle", "audit" (at the LogDetachAudit call), "update" (at the Update
\* call), "reshow" (at the closing Show), "done" (returned).
\* issue .. err are the locals and results of the code; the rest records the
\* call for the properties: the Update and LogDetachAudit calls it made, the
\* collaborator calls that failed, the length of the audit log at its entry,
\* and whether another caller wrote between its fetch and its Update.
IdleProc ==
    [pc |-> "idle", op |-> "none", moleculeID |-> << >>, opts |-> NoOptions,
     issue |-> NilIssue, attachedAt |-> << >>, entry |-> NoEntry,
     newDesc |-> << >>, ret |-> NilIssue, err |-> ErrNil,
     nUpdates |-> 0, nAppendCalls |-> 0, failed |-> {}, logBefore |-> 0,
     auditErr |-> "nil", stale |-> FALSE, prev |-> NoPrev]

\* The record store, audit log and callers before the first call.
BeadsInit(records) ==
    /\ store \in records
    /\ original = store.Description
    /\ auditLog = << >>
    /\ auditFs = [dir |-> TRUE, file |-> FALSE]
    /\ now = 0
    /\ proc = [p \in Procs |-> IdleProc]
    /\ foreignWrite = [p \in Procs |-> FALSE]
    /\ calls = [p \in Procs |-> 0]
    /\ faults = 0

\* No caller of the codec functions.
CodecIdle ==
    [schema |-> "none", text |-> << >>, fields |-> NilAttachmentFields,
     textIn |-> << >>, fieldsIn |-> NilAttachmentFields, ops |-> << >>]

\* var mutex sync.Mutex: the zero value is an unlocked mutex; a locked one is
\* modelled by the goroutine (1..MaxThreads) that holds it.
Unlocked == 0

\* No goroutine calls events.Log.
LogIdle ==
    /\ eventsFile = [exists |-> FALSE, bytes |-> << >>]
    /\ mutex = Unlocked
    /\ thread = << >>

Init ==
    /\ BeadsInit(Records)
    /\ codec = CodecIdle
    /\ LogIdle

\* Whether a collaborator call (bd subprocess, file append) succeeds: it may
\* fail while the failure budget lasts.
Outcomes == IF faults < MaxFaults THEN {TRUE, FALSE} ELSE {TRUE}
Inject(ok) == faults' = IF ok THEN faults ELSE faults + 1

\* The clock values a reading of time.Now() can return: not before the
\* last reading.
Readings == now..MaxClock

\* b.Show(id) on a successful run of bd: the stored record.
Show(id) == MkIssue(id, store.Status, store.Description)

\* UpdateOptions{Status: &status, Description: &newDesc} with status "open".
DescriptionAndStatus(newDesc) ==
    [hasStatus |-> TRUE, Status |-> "open", hasDescription |-> TRUE,
     Description |-> newDesc]

\* UpdateOptions of the three transitions: UpdateOptions{Description: &newDesc},
\* every other pointer field nil.
DescriptionOnly(newDesc) ==
    [hasStatus |-> FALSE, Status |-> "", hasDescription |-> TRUE,
     Description |-> newDesc]

\* b.Update(id, opts) on a successful run of bd: the record with the fields
\* the options carry replaced.
Update(st, opts) ==
    [Status |-> IF opts.hasStatus THEN opts.Status ELSE st.Status,
     Description |-> IF opts.hasDescription THEN opts.Description
                     ELSE st.Description]

\* A caller enters a transition: its locals are fresh, its previous call
\* remembered.
Enter(p, op, moleculeID, opts) ==
    [IdleProc EXCEPT !.op = op, !.moleculeID = moleculeID, !.opts = opts,
                     !.logBefore = Len(auditLog),
                     !.prev = [op |-> proc[p].op,
                               ok |-> proc[p].pc = "done" /\ proc[p].err = ErrNil,
                               moleculeID |-> proc[p].moleculeID,
                               left |-> proc[p].newDesc,
                               nUpdates |-> proc[p].nUpdates,
                               nAppendCalls |-> proc[p].nAppendCalls,
                               failed |-> proc[p].failed,
                               logBefore |-> proc[p].logBefore,
                               dirty |-> foreignWrite[p]]]

\* The calls of one behaviour: either the first caller makes up to MaxCalls
\* calls in sequence, or every caller makes one call, the calls overlapping in
\* any way or not at all.
CanEnter(p) ==
    /\ proc[p].pc \in {"idle", "done"}
    /\ IF p = FirstCaller
       THEN calls[p] < MaxCalls /\ \A q \in Procs \ {p} : calls[q] = 0
       ELSE calls[p] = 0 /\ calls[FirstCaller] = 1

Entered(p) ==
    /\ calls' = [calls EXCEPT ![p] = calls[p] + 1]
    /\ foreignWrite' = [foreignWrite EXCEPT ![p] = FALSE]

\* A call returns (issue, err).
Return(self, issue, err) ==
    [self EXCEPT !.pc = "done", !.ret = issue, !.err = err]

\* A collaborator call of this call failed at the given site.
Failed(self, site) == [self EXCEPT !.failed = self.failed \cup {site}]

\* AttachMolecule without the status check.
AttachMoleculeAnyStatus(self, ok, issue, t) ==
    LET fields  == MkAttachmentFields(self.moleculeID, currentTimestamp(t), << >>)
        newDesc == SetAttachmentFields(issue, fields)
    IN  IF ~ok THEN Return(Failed(self, "show"), NilIssue, ErrFetching)
        ELSE [self EXCEPT !.pc = "update", !.issue = issue,
                          !.attachedAt = fields.AttachedAt, !.newDesc = newDesc]

\* AttachMolecule from its entry to the Update call: Show, the status check,
\* the fields stamped with the current time, the merged description.
AttachMolecule(self, ok, issue, t) ==
    LET fields  == MkAttachmentFields(self.moleculeID, currentTimestamp(t), << >>)
        newDesc == SetAttachmentFields(issue, fields)
    IN  IF ~ok THEN Return(Failed(self, "show"), NilIssue, ErrFetching)
        ELSE IF issue.Status # StatusPinned
             THEN Return([self EXCEPT !.issue = issue], NilIssue,
                         ErrNotPinned(issue.Status))
        ELSE [self EXCEPT !.pc = "update", !.issue = issue,
                          !.attachedAt = fields.AttachedAt, !.newDesc = newDesc]

AttachShow(p) ==
    /\ CanEnter(p)
    /\ \E m \in MoleculeIDs, ok \in Outcomes, t \in Readings :
        /\ Inject(ok)
        /\ LET next == AttachMolecule(Enter(p, "AttachMolecule", m, NoOptions),
                                      ok, Show(PinnedID), t)
           IN  /\ proc' = [proc EXCEPT ![p] = next]
               /\ now' = IF next.pc = "update" THEN t ELSE now
               /\ next.pc # "update" => t = now
    /\ Entered(p)
    /\ UNCHANGED <<codecVars, logVars, original, store, auditLog, auditFs>>

\* DetachMolecule without the early return.
DetachMoleculeAlwaysStrip(self, ok, issue) ==
    IF ~ok THEN Return(Failed(self, "show"), NilIssue, ErrFetching)
    ELSE [self EXCEPT !.pc = "update", !.issue = issue,
                      !.newDesc = SetAttachmentFields(issue, NilAttachmentFields)]

\* DetachMolecule from its entry to the Update call: Show, parse, early return
\* when there is nothing to detach, the stripped description.
DetachMolecule(self, ok, issue) ==
    IF ~ok THEN Return(Failed(self, "show"), NilIssue, ErrFetching)
    ELSE IF ParseAttachmentFields(issue).isNil
         THEN Return([self EXCEPT !.issue = issue], issue, ErrNil)
    ELSE [self EXCEPT !.pc = "update", !.issue = issue,
                      !.newDesc = SetAttachmentFields(issue, NilAttachmentFields)]

DetachShow(p) ==
    /\ CanEnter(p)
    /\ \E ok \in Outcomes :
        /\ Inject(ok)
        /\ proc' = [proc EXCEPT ![p] =
               DetachMolecule(Enter(p, "DetachMolecule", << >>, NoOptions),
                              ok, Show(PinnedID))]
    /\ Entered(p)
    /\ UNCHANGED <<codecVars, logVars, original, store, auditLog, auditFs, now>>

\* The DetachAuditEntry DetachMoleculeWithAudit builds.
MkDetachAuditEntry(pinnedBeadID, opts, issue, attachment, timestamp) ==
    [Timestamp |-> timestamp,
     Operation |-> IF opts.Operation = "" THEN "detach" ELSE opts.Operation,
     PinnedBeadID |-> pinnedBeadID,
     DetachedMolecule |-> attachment.AttachedMolecule,
     DetachedBy |-> opts.Agent,
     Reason |-> opts.Reason,
     PreviousState |-> issue.Status]

\* DetachMoleculeWithAudit going to its Update call without the
\* LogDetachAudit call.
DetachMoleculeWithAuditNoLog(self, ok, issue, t) ==
    LET attachment == ParseAttachmentFields(issue)
    IN  IF ~ok THEN Return(Failed(self, "show"), NilIssue, ErrFetching)
        ELSE IF attachment.isNil
             THEN Return([self EXCEPT !.issue = issue], issue, ErrNil)
        ELSE [self EXCEPT !.pc = "update", !.issue = issue,
                          !.entry = MkDetachAuditEntry(PinnedID, self.opts, issue,
                                        attachment, currentTimestamp(t)),
                          !.newDesc = SetAttachmentFields(issue, NilAttachmentFields)]

\* DetachMoleculeWithAudit without the early return.
DetachMoleculeWithAuditAlwaysLog(self, ok, issue, t) ==
    LET attachment == ParseAttachmentFields(issue)
    IN  IF ~ok THEN Return(Failed(self, "show"), NilIssue, ErrFetching)
        ELSE [self EXCEPT !.pc = "audit", !.issue = issue,
                          !.entry = MkDetachAuditEntry(PinnedID, self.opts, issue,
                                        attachment, currentTimestamp(t))]

\* DetachMoleculeWithAudit with the status check of AttachMolecule.
DetachMoleculeWithAuditPinnedOnly(self, ok, issue, t) ==
    LET attachment == ParseAttachmentFields(issue)
    IN  IF ~ok THEN Return(Failed(self, "show"), NilIssue, ErrFetching)
        ELSE IF issue.Status # StatusPinned
             THEN Return([self EXCEPT !.issue = issue], NilIssue,
                         ErrNotPinned(issue.Status))
        ELSE IF attachment.isNil
             THEN Return([self EXCEPT !.issue = issue], issue, ErrNil)
        ELSE [self EXCEPT !.pc = "audit", !.issue = issue,
                          !.entry = MkDetachAuditEntry(PinnedID, self.opts, issue,
                                        attachment, currentTimestamp(t))]

\* DetachMoleculeWithAudit from its entry to the LogDetachAudit call: Show,
\* parse, early return when there is nothing to detach, the audit entry.
DetachMoleculeWithAudit(self, ok, issue, t) ==
    LET attachment == ParseAttachmentFields(issue)
    IN  IF ~ok THEN Return(Failed(self, "show"), NilIssue, ErrFetching)
        ELSE IF attachment.isNil
             THEN Return([self EXCEPT !.issue = issue], issue, ErrNil)
        ELSE [self EXCEPT !.pc = "audit", !.issue = issue,
                          !.entry = MkDetachAuditEntry(PinnedID, self.opts, issue,
                                        attachment, currentTimestamp(t))]

DetachAuditShow(p) ==
    /\ CanEnter(p)
    /\ \E o \in DetachOptionsSet, ok \in Outcomes, t \in Readings :
        /\ Inject(ok)
        /\ LET next == DetachMoleculeWithAudit(
                           Enter(p, "DetachMoleculeWithAudit", << >>, o),
                           ok, Show(PinnedID), t)
           IN  /\ proc' = [proc EXCEPT ![p] = next]
               /\ now' = IF next.pc = "audit" THEN t ELSE now
               /\ next.pc # "audit" => t = now
    /\ Entered(p)
    /\ UNCHANGED <<codecVars, logVars, original, store, auditLog, auditFs>>

\* LogDetachAudit opening the file with O_TRUNC in place of O_APPEND.
LogDetachAuditTruncate(log, entry) == <<entry>>

\* LogDetachAudit on a successful open and write: the entry appended as the
\* last line of the audit log.
LogDetachAudit(log, entry) == Append(log, entry)

\* DetachMoleculeWithAudit returning the error of a failed append.
AfterLogDetachAuditAbort(self, ok) ==
    IF ok
    THEN [self EXCEPT !.pc = "update",
                      !.nAppendCalls = self.nAppendCalls + 1,
                      !.newDesc = SetAttachmentFields(self.issue, NilAttachmentFields)]
    ELSE Return(Failed([self EXCEPT !.nAppendCalls = self.nAppendCalls + 1], "audit"),
                NilIssue, [msg |-> "writing audit entry", status |-> ""])

\* DetachMoleculeWithAudit after the LogDetachAudit call returned: a failed
\* append is reported on stderr and the detach goes on to the Update call
\* with the stripped description.
AfterLogDetachAudit(self, ok) ==
    [(IF ok THEN self ELSE Failed(self, "audit"))
        EXCEPT !.pc = "update",
               !.nAppendCalls = self.nAppendCalls + 1,
               !.newDesc = SetAttachmentFields(self.issue, NilAttachmentFields)]

\* AuditOutcomes of a LogDetachAudit that calls os.MkdirAll on the directory
\* before it opens the file.
AuditOutcomesMkdirAll ==
    IF faults < MaxFaults
    THEN {"nil", "opening audit log", "writing audit entry"}
    ELSE {"nil"}

\* The results of os.OpenFile(auditPath, O_CREATE|O_APPEND|O_WRONLY, 0644) and
\* f.Write in LogDetachAudit: O_CREATE creates the file, not its directory,
\* so without the directory the open fails; with it, the open or the write
\* may fail while the failure budget lasts.
AuditOutcomes ==
    IF ~auditFs.dir THEN {"opening audit log"}
    ELSE IF faults < MaxFaults
         THEN {"nil", "opening audit log", "writing audit entry"}
    ELSE {"nil"}

\* The file system after LogDetachAudit returned err: a successful open has
\* created the file.
AfterOpenFile(fs, err) ==
    IF err = "opening audit log" THEN fs ELSE [fs EXCEPT !.file = TRUE]

\* The LogDetachAudit call of DetachMoleculeWithAudit.
DetachAuditLog(p) ==
    /\ proc[p].pc = "audit"
    /\ \E err \in AuditOutcomes :
        LET ok == err = "nil"
        IN  /\ faults' = IF ok \/ ~auditFs.dir THEN faults ELSE faults + 1
            /\ auditLog' = IF ok THEN LogDetachAudit(auditLog, proc[p].entry)
                            ELSE auditLog
            /\ auditFs' = AfterOpenFile(auditFs, err)
            /\ proc' = [proc EXCEPT ![p] =
                   [AfterLogDetachAudit(proc[p], ok) EXCEPT !.auditErr = err]]
    /\ UNCHANGED <<codecVars, logVars, original, store, now, foreignWrite, calls>>

\* The three transitions going on to the closing Show whatever Update returned.
AfterUpdateIgnoreError(self, ok) ==
    IF ok THEN [self EXCEPT !.pc = "reshow", !.nUpdates = self.nUpdates + 1]
    ELSE [Failed([self EXCEPT !.nUpdates = self.nUpdates + 1], "update")
             EXCEPT !.pc = "reshow"]

\* The three transitions after their Update call returned.
AfterUpdate(self, ok) ==
    IF ok THEN [self EXCEPT !.pc = "reshow", !.nUpdates = self.nUpdates + 1]
    ELSE Return(Failed([self EXCEPT !.nUpdates = self.nUpdates + 1], "update"),
                NilIssue, ErrUpdating)

\* The Update call refusing to overwrite a description that is no longer the
\* fetched one.
UpdateStepChecked(p) ==
    /\ proc[p].pc = "update"
    /\ \E ok \in Outcomes :
        /\ Inject(ok)
        /\ LET conflict == store.Description # proc[p].issue.Description
               self     == [proc[p] EXCEPT !.stale = foreignWrite[p]]
           IN  /\ store' = IF ok /\ ~conflict
                           THEN Update(store, DescriptionOnly(proc[p].newDesc))
                           ELSE store
               /\ foreignWrite' = IF ok /\ ~conflict THEN [q \in Procs |-> q # p]
                                  ELSE foreignWrite
               /\ proc' = [proc EXCEPT ![p] =
                      IF ok /\ conflict
                      THEN Return([self EXCEPT !.nUpdates = self.nUpdates + 1],
                                  NilIssue, ErrUpdating)
                      ELSE AfterUpdate(self, ok)]
    /\ UNCHANGED <<codecVars, logVars, original, auditLog, auditFs, now, calls>>

\* The Update call of the three transitions: no check of the stored record
\* against the fetched one.
UpdateStep(p) ==
    /\ proc[p].pc = "update"
    /\ \E ok \in Outcomes :
        /\ Inject(ok)
        /\ store' = IF ok THEN Update(store, DescriptionOnly(proc[p].newDesc))
                    ELSE store
        /\ foreignWrite' = IF ok THEN [q \in Procs |-> q # p] ELSE foreignWrite
        /\ proc' = [proc EXCEPT ![p] =
               AfterUpdate([proc[p] EXCEPT !.stale = foreignWrite[p]], ok)]
    /\ UNCHANGED <<codecVars, logVars, original, auditLog, auditFs, now, calls>>

\* The closing "return b.Show(pinnedBeadID)" of the three transitions.
Reshow(p) ==
    /\ proc[p].pc = "reshow"
    /\ \E ok \in Outcomes :
        /\ Inject(ok)
        /\ proc' = [proc EXCEPT ![p] =
               IF ok THEN Return(proc[p], Show(PinnedID), ErrNil)
               ELSE Return(Failed(proc[p], "reshow"), NilIssue, ErrShow)]
    /\ UNCHANGED <<codecVars, logVars, original, store, auditLog, auditFs, now, foreignWrite, calls>>

Next ==
    \/ \E p \in Procs : AttachShow(p)
    \/ \E p \in Procs : DetachShow(p)
    \/ \E p \in Procs : DetachAuditShow(p)
    \/ \E p \in Procs : DetachAuditLog(p)
    \/ \E p \in Procs : UpdateStep(p)
    \/ \E p \in Procs : Reshow(p)

Spec == Init /\ [][Next]_vars

(***************************************************************************)
(* Properties of the attach/detach state machine                           *)
(***************************************************************************)
DetachOps == {"DetachMolecule", "DetachMoleculeWithAudit"}

Others(p) == Procs \ {p}
Alone(p) == \A q \in Others(p) : calls[q] = 0

\* The alias sets of the attachment schema.
MoleculeKeys == {k_attached_molecule, k_attached_dash_molecule, k_attachedmolecule}
AtKeys == {k_attached_at, k_attached_dash_at, k_attachedat}
ArgsKeys == {k_attached_args, k_attached_dash_args, k_attachedargs}

\* line is a "key: ..." line whose key, trimmed and lowercased, is in keys.
HasKeyIn(line, keys) ==
    LET t == TrimSpace(line)
        i == Index(t, ":")
    IN  i # -1 /\ ToLower(TrimSpace(SliceTo(t, i))) \in keys

\* The stored record is Unattached / Attached.
Unattached == ParseAttachmentFields(Show(PinnedID)).isNil

\* C1: two DetachMoleculeWithAudit calls in a row by one caller on a record
\* that carried an attachment overlay, the first returning without error and
\* nobody writing the record in between: the second call returns the record as
\* the first left it, issues no Update and no audit append, and the audit log
\* holds exactly one entry from the two calls (none when the first call's
\* append failed).
DetachTwice(p) ==
    /\ proc[p].pc = "done"
    /\ proc[p].op = "DetachMoleculeWithAudit"
    /\ "show" \notin proc[p].failed
    /\ proc[p].prev.op = "DetachMoleculeWithAudit"
    /\ proc[p].prev.ok
    /\ proc[p].prev.nAppendCalls = 1
    /\ ~proc[p].prev.dirty

C1_DetachIdempotent ==
    \A p \in Procs :
        DetachTwice(p) =>
            /\ proc[p].err = ErrNil
            /\ proc[p].ret = MkIssue(PinnedID, store.Status, proc[p].prev.left)
            /\ proc[p].nUpdates = 0
            /\ proc[p].nAppendCalls = 0
            /\ ~foreignWrite[p] => store.Description = proc[p].prev.left
            /\ Alone(p) =>
                   Len(auditLog) = proc[p].prev.logBefore
                       + (IF "audit" \in proc[p].prev.failed THEN 0 ELSE 1)

C1_Witness ==
    \E p \in Procs :
        /\ DetachTwice(p)
        /\ proc[p].prev.failed = {}
        /\ Len(auditLog) = 1
        /\ auditLog[1].DetachedMolecule = M1

\* C2: a detach (either variant) that fetches a record whose description has
\* no recognized attachment field returns the fetched record with no error,
\* issues no Update and appends no audit entry; a detach is never at its
\* audit, Update or closing Show with such a record.
DetachNothing(p) ==
    /\ proc[p].pc = "done"
    /\ proc[p].op \in DetachOps
    /\ ~proc[p].issue.isNil
    /\ ParseAttachmentFields(proc[p].issue).isNil

C2_DetachNoFieldsIsNoOp ==
    \A p \in Procs :
        /\ DetachNothing(p) =>
               /\ proc[p].ret = proc[p].issue
               /\ proc[p].err = ErrNil
               /\ proc[p].nUpdates = 0
               /\ proc[p].nAppendCalls = 0
               /\ ~foreignWrite[p] => Show(PinnedID) = proc[p].issue
               /\ Alone(p) => Len(auditLog) = proc[p].logBefore
        /\ (proc[p].op \in DetachOps /\ proc[p].pc \in {"audit", "update", "reshow"})
               => ~ParseAttachmentFields(proc[p].issue).isNil

C2_Witness ==
    /\ \E p \in Procs : DetachNothing(p) /\ proc[p].op = "DetachMolecule"
                        /\ proc[p].issue.Description = DescEmptyValue
    /\ \E p \in Procs : DetachNothing(p) /\ proc[p].op = "DetachMoleculeWithAudit"

\* C3: a DetachMoleculeWithAudit whose audit append failed (and no other
\* collaborator call) still issues its Update and returns the re-fetched
\* record without error; unless another caller wrote since, the stored
\* record is Unattached, with the description the successful path writes.
AuditAppendFailed(p) ==
    /\ proc[p].pc = "done"
    /\ proc[p].op = "DetachMoleculeWithAudit"
    /\ proc[p].failed = {"audit"}

C3_DetachSurvivesAuditFailure ==
    \A p \in Procs :
        AuditAppendFailed(p) =>
            /\ proc[p].err = ErrNil
            /\ ~proc[p].ret.isNil
            /\ proc[p].nUpdates = 1
            /\ ~foreignWrite[p] =>
                   /\ proc[p].ret = Show(PinnedID)
                   /\ Unattached
                   /\ store.Description =
                          SetAttachmentFields(proc[p].issue, NilAttachmentFields)

C3_Witness ==
    \E p \in Procs :
        /\ AuditAppendFailed(p)
        /\ ~foreignWrite[p]
        /\ auditLog = << >>
        /\ proc[p].issue.Description = DescWithArgs

\* C4: after a successful AttachMolecule(m), nobody having written since, the
\* stored description starts with the line "attached_molecule: m", then the
\* line "attached_at: <time of this attach>", and has no other line for those
\* two fields; on an empty description it is exactly those two lines; an
\* attach of the same m right after a successful attach changes the
\* attached_at line only.
AttachDone(p) ==
    /\ proc[p].pc = "done"
    /\ proc[p].op = "AttachMolecule"
    /\ proc[p].err = ErrNil

Reattached(p) ==
    /\ AttachDone(p)
    /\ proc[p].prev.op = "AttachMolecule"
    /\ proc[p].prev.ok
    /\ proc[p].prev.moleculeID = proc[p].moleculeID
    /\ ~proc[p].prev.dirty

C4_AttachWritesOverlay ==
    \A p \in Procs :
        (AttachDone(p) /\ ~foreignWrite[p]) =>
            LET lines == Split(store.Description)
                l1    == k_attached_molecule \o ColonSpace \o proc[p].moleculeID
                l2    == k_attached_at \o ColonSpace \o proc[p].attachedAt
                was   == Split(proc[p].prev.left)
            IN  /\ Len(lines) >= 2
                /\ lines[1] = l1
                /\ lines[2] = l2
                /\ \A i \in 3..Len(lines) : ~HasKeyIn(lines[i], MoleculeKeys \cup AtKeys)
                /\ proc[p].issue.Description = << >>
                       => store.Description = l1 \o <<NL>> \o l2
                /\ Reattached(p) =>
                       /\ Len(lines) = Len(was)
                       /\ \A i \in 1..Len(lines) : i # 2 => lines[i] = was[i]

\* A second attach of the same molecule at a later time onto the overlay
\* and free text the first one left.
C4_Witness ==
    \E p \in Procs :
        /\ Reattached(p)
        /\ ~foreignWrite[p]
        /\ Len(Split(store.Description)) > 2
        /\ store.Description # proc[p].prev.left

\* C5: AttachMolecule on a fetched record whose status is not pinned returns
\* the error naming that status and no record, issues no Update, and leaves
\* the stored record as fetched; an attach is never at its Update or closing
\* Show with a record that is not pinned.
AttachNotPinned(p) ==
    /\ proc[p].pc = "done"
    /\ proc[p].op = "AttachMolecule"
    /\ ~proc[p].issue.isNil
    /\ proc[p].issue.Status # StatusPinned

C5_AttachRequiresPinned ==
    \A p \in Procs :
        /\ AttachNotPinned(p) =>
               /\ proc[p].err = ErrNotPinned(store.Status)
               /\ proc[p].ret.isNil
               /\ proc[p].nUpdates = 0
               /\ ~foreignWrite[p] => Show(PinnedID) = proc[p].issue
        /\ (proc[p].op = "AttachMolecule" /\ proc[p].pc \in {"update", "reshow"})
               => proc[p].issue.Status = StatusPinned

C5_Witness ==
    \E p \in Procs :
        /\ AttachNotPinned(p)
        /\ proc[p].err = ErrNotPinned("open")
        /\ store.Description = DescCanonical

\* C6 as claimed: when the fetched description carried attached_args: A, the
\* description a successful AttachMolecule persisted still parses to
\* attached_args = A.
HadArgs(p) ==
    /\ AttachDone(p)
    /\ ~foreignWrite[p]
    /\ ParseAttachmentFields(proc[p].issue).AttachedArgs # << >>

C6_AttachKeepsArgs ==
    \A p \in Procs :
        HadArgs(p) =>
            ParseAttachmentFields(Show(PinnedID)).AttachedArgs
                = ParseAttachmentFields(proc[p].issue).AttachedArgs

\* C6 as amended: AttachMolecule sets attached_molecule and attached_at and
\* drops attached_args: when the fetched description carried attached_args: A,
\* the description a successful AttachMolecule persisted has no attached_args
\* line and parses to the new molecule and time with attached_args empty.
C6_AttachDropsArgs ==
    \A p \in Procs :
        HadArgs(p) =>
            /\ ParseAttachmentFields(Show(PinnedID))
                   = MkAttachmentFields(proc[p].moleculeID, proc[p].attachedAt, << >>)
            /\ \A i \in 1..Len(Split(store.Description)) :
                   ~HasKeyIn(Split(store.Description)[i], ArgsKeys)

C6_Witness ==
    \E p \in Procs :
        /\ HadArgs(p)
        /\ ParseAttachmentFields(proc[p].issue).AttachedArgs = Args

\* C10: no conflict check between fetch and persist.  A transition whose
\* Update succeeded, nobody having written after it, left exactly the
\* description it computed from its own fetch, also when another caller wrote
\* between that fetch and the Update; and a call none of whose collaborator
\* calls failed returns an error only for a record that is not pinned, so
\* both of two interleaved transitions complete without error.
FieldsOf(p) ==
    IF proc[p].op = "AttachMolecule"
    THEN MkAttachmentFields(proc[p].moleculeID, proc[p].attachedAt, << >>)
    ELSE NilAttachmentFields

Wrote(p) == proc[p].nUpdates = 1 /\ "update" \notin proc[p].failed

C10_LastWriterWins ==
    \A p \in Procs :
        /\ (Wrote(p) /\ ~foreignWrite[p]) =>
               store.Description = SetAttachmentFields(proc[p].issue, FieldsOf(p))
        /\ (proc[p].pc = "done" /\ proc[p].failed = {}) =>
               \/ proc[p].err = ErrNil /\ ~proc[p].ret.isNil
               \/ /\ proc[p].op = "AttachMolecule"
                  /\ proc[p].issue.Status # StatusPinned
                  /\ proc[p].err = ErrNotPinned(proc[p].issue.Status)

\* Both fetched before either persisted; the attach completed, and its
\* molecule is neither stored nor named by the audit entry of the detach
\* that removed it.
C10_Witness ==
    \E p \in Procs : \E q \in Others(p) :
        /\ proc[p].pc = "done" /\ proc[p].op = "DetachMoleculeWithAudit"
        /\ proc[p].stale /\ proc[p].err = ErrNil
        /\ proc[q].stale = FALSE /\ AttachDone(q) /\ Wrote(q)
        /\ ~foreignWrite[p]
        /\ proc[q].issue = proc[p].issue
        /\ Unattached
        /\ auditLog # << >>
        /\ auditLog[Len(auditLog)].DetachedMolecule # proc[q].moleculeID

\* C11: the step in which the Update call of an Attach or Detach fails takes
\* the call straight to its return (no closing Show), with the "updating
\* pinned bead" error and no record, and leaves the stored record as it was:
\* the description the call fetched, unless another caller wrote since.
UpdateFails(p) ==
    /\ proc[p].pc = "update"
    /\ "update" \in proc'[p].failed

C11_UpdateFailurePropagates ==
    [][\A p \in Procs :
          UpdateFails(p) =>
              /\ proc'[p].pc = "done"
              /\ proc'[p].err = ErrUpdating
              /\ proc'[p].ret = NilIssue
              /\ store' = store
              /\ ~foreignWrite[p] =>
                     store'.Description = proc[p].issue.Description]_vars

\* A detach with audit returned the Update error; the record still carries
\* the overlay it fetched.
C11_Witness ==
    \E p \in Procs :
        /\ proc[p].pc = "done"
        /\ proc[p].op = "DetachMoleculeWithAudit"
        /\ "update" \in proc[p].failed
        /\ proc[p].err = ErrUpdating
        /\ proc[p].ret = NilIssue
        /\ store.Description = proc[p].issue.Description
        /\ ~Unattached

\* The call p is in is a DetachMoleculeWithAudit whose append did not fail.
AuditedDetach(p) ==
    /\ proc[p].op = "DetachMoleculeWithAudit"
    /\ "audit" \notin proc[p].failed

\* The entry of the call p is in stands in the log, appended during the call.
EntryLogged(p) ==
    \E i \in (proc[p].logBefore + 1)..Len(auditLog) : auditLog[i] = proc[p].entry

\* The detaches with audit that were persisted and whose append did not fail,
\* among the calls the callers are in and their calls before.
PersistedAuditedDetaches ==
    Cardinality({p \in Procs : AuditedDetach(p) /\ Wrote(p)})
    + Cardinality({p \in Procs :
          /\ proc[p].prev.op = "DetachMoleculeWithAudit"
          /\ "audit" \notin proc[p].prev.failed
          /\ proc[p].prev.nUpdates = 1
          /\ "update" \notin proc[p].prev.failed})

\* C17: in DetachMoleculeWithAudit the append is attempted before the Update
\* and never after.  In the step in which the Update persists the stripped
\* description the entry of the call is already in the log (its append not
\* having failed); a call whose Update failed leaves its entry in the log
\* and, nobody else writing, the record Attached; and the log holds at least
\* as many entries as detaches were persisted.
C17_AuditBeforeUpdate ==
    [][\A p \in Procs :
          /\ (AuditedDetach(p) /\ proc[p].pc = "update" /\ Wrote(p)') =>
                 /\ EntryLogged(p)
                 /\ auditLog' = auditLog
          /\ (proc[p].op = "DetachMoleculeWithAudit" /\ proc[p].pc = "audit") =>
                 proc[p].nUpdates = 0
          /\ (proc[p].op = "DetachMoleculeWithAudit" /\ proc[p].nUpdates > 0) =>
                 proc[p].nAppendCalls = 1
          /\ (AuditedDetach(p)' /\ "update" \in proc'[p].failed) =>
                 EntryLogged(p)'
          /\ (/\ AuditedDetach(p) /\ proc[p].pc = "update"
              /\ "update" \in proc'[p].failed) =>
                 /\ store' = store
                 /\ ~foreignWrite[p] => ~Unattached
          /\ Len(auditLog') >= PersistedAuditedDetaches']_vars

\* A detach with audit whose Update failed: its entry is the one entry of
\* the log, no detach was persisted, the record is Attached.
C17_Witness ==
    \E p \in Procs :
        /\ proc[p].pc = "done"
        /\ AuditedDetach(p)
        /\ "update" \in proc[p].failed
        /\ auditLog = <<proc[p].entry>>
        /\ PersistedAuditedDetaches = 0
        /\ ~Unattached

\* GetAttachment: Show, then ParseAttachmentFields of the record shown.
GetAttachment(id) == ParseAttachmentFields(Show(id))

\* The stored record is Attached: GetAttachment returns fields, one of them
\* at least with a value.
Attached ==
    LET fields == GetAttachment(PinnedID)
    IN  /\ ~fields.isNil
        /\ \/ fields.AttachedMolecule # << >>
           \/ fields.AttachedAt # << >>
           \/ fields.AttachedArgs # << >>

Succeeded(p) == proc[p].pc = "done" /\ proc[p].err = ErrNil

\* C18: the stored record is in exactly one of the states Unattached and
\* Attached, and once a call has returned without error, nobody else having
\* written since, the record stored and the record returned are Attached
\* after AttachMolecule and Unattached after DetachMolecule and
\* DetachMoleculeWithAudit, whatever description the call found.
C18_TransitionsTotal ==
    /\ Attached <=> ~Unattached
    /\ \A p \in Procs :
          (Succeeded(p) /\ ~foreignWrite[p]) =>
              /\ proc[p].op = "AttachMolecule" =>
                     /\ Attached
                     /\ ~ParseAttachmentFields(proc[p].ret).isNil
              /\ proc[p].op \in DetachOps =>
                     /\ Unattached
                     /\ ParseAttachmentFields(proc[p].ret).isNil

\* A DetachMolecule that found mixed-case and alias keys, a duplicated field
\* and the overlay below free text, and persisted the stripped description.
C18_Witness ==
    \E p \in Procs :
        /\ Succeeded(p)
        /\ proc[p].op = "DetachMolecule"
        /\ proc[p].issue.Description = DescScattered
        /\ Wrote(p)
        /\ ~foreignWrite[p]
        /\ Unattached
        /\ store.Description = Prose

\* line is an attachment-key line whose value is empty after trimming.
EmptyValued(line) ==
    LET t == TrimSpace(line)
    IN  /\ HasKeyIn(line, attachmentKeys)
        /\ TrimSpace(SliceFrom(t, Index(t, ":") + 1)) = << >>

\* The attachment-key lines of description.
KeyLines(description) ==
    LET lines == Split(description)
    IN  {i \in 1..Len(lines) : HasKeyIn(lines[i], attachmentKeys)}

\* description has attachment-key lines, every one of them empty-valued.
OnlyEmptyValued(description) ==
    /\ KeyLines(description) # {}
    /\ \A i \in KeyLines(description) : EmptyValued(Split(description)[i])

\* C19: a record whose attachment-key lines are all empty-valued parses as
\* having no attachment; a Detach that fetched it returns it without an
\* Update, the lines still stored; an Attach that fetched it stores a
\* description whose attachment-key lines are the two it wrote.
C19_EmptyValueLines ==
    /\ OnlyEmptyValued(store.Description) => Unattached
    /\ \A p \in Procs :
          (Succeeded(p) /\ OnlyEmptyValued(proc[p].issue.Description)) =>
              /\ ParseAttachmentFields(proc[p].issue).isNil
              /\ proc[p].op \in DetachOps =>
                     /\ proc[p].nUpdates = 0
                     /\ proc[p].nAppendCalls = 0
                     /\ proc[p].ret = proc[p].issue
                     /\ ~foreignWrite[p] =>
                            /\ store.Description = proc[p].issue.Description
                            /\ OnlyEmptyValued(store.Description)
              /\ (proc[p].op = "AttachMolecule" /\ ~foreignWrite[p]) =>
                     /\ Wrote(p)
                     /\ Cardinality(KeyLines(store.Description)) = 2
                     /\ \A i \in KeyLines(store.Description) :
                            ~EmptyValued(Split(store.Description)[i])
                     /\ Attached

\* After a Detach that left the empty-valued line where it was, the same
\* caller's Attach has removed it.
C19_Witness ==
    /\ proc[FirstCaller].prev.op \in DetachOps
    /\ proc[FirstCaller].prev.nUpdates = 0
    /\ AttachDone(FirstCaller)
    /\ proc[FirstCaller].issue.Description = DescEmptyValue
    /\ ~foreignWrite[FirstCaller]
    /\ store.Description =
           Text(<<Line(k_attached_molecule, ColonSpace, proc[FirstCaller].moleculeID),
                  Line(k_attached_at, ColonSpace, proc[FirstCaller].attachedAt),
                  << >>, Prose>>)

\* description has no attachment-key line and neither its first nor its last
\* line is blank.
Restorable(description) ==
    LET lines == Split(description)
    IN  \/ description = << >>
        \/ /\ KeyLines(description) = {}
           /\ TrimSpace(lines[1]) # << >>
           /\ TrimSpace(lines[Len(lines)]) # << >>

\* The descriptions AttachMolecule writes over the original description.
Overlaid ==
    {SetAttachmentFields(MkIssue(PinnedID, StatusPinned, original),
                         MkAttachmentFields(m, currentTimestamp(n), << >>)) :
         m \in MoleculeIDs, n \in 0..MaxClock}

\* C20: on a record whose original description has no attachment-key line
\* and no blank first or last line, a Detach that stripped the overlay an
\* Attach had written stores and returns the original description exactly;
\* however many Attach and Detach calls were made, the stored description is
\* the original when Unattached and the overlay of one Attach, a blank line
\* and the original when Attached.
C20_AttachDetachRestores ==
    Restorable(original) =>
        /\ Unattached => store.Description = original
        /\ Attached => store.Description \in Overlaid
        /\ \A p \in Procs :
              (Succeeded(p) /\ proc[p].op \in DetachOps /\ Wrote(p)
                  /\ ~foreignWrite[p]) =>
                  /\ proc[p].issue.Description \in Overlaid
                  /\ store.Description = original
                  /\ proc[p].ret.Description = original

\* One caller's AttachMolecule and then DetachMolecule, both persisted, on a
\* description with another key line, an interior blank line and an indented
\* line.
C20_Witness ==
    /\ original = DescNotes
    /\ proc[FirstCaller].prev.op = "AttachMolecule"
    /\ proc[FirstCaller].prev.ok
    /\ proc[FirstCaller].prev.nUpdates = 1
    /\ Succeeded(FirstCaller)
    /\ proc[FirstCaller].op \in DetachOps
    /\ Wrote(FirstCaller)
    /\ store.Description = DescNotes

\* C22: no step of an Attach or Detach changes the status of the stored
\* record; the record changes only in the Update step of a call, and then
\* to the record with the call's new description in place of the old one;
\* a record a call returns carries the id asked for and the stored status.
C22_OnlyDescriptionChanges ==
    [][/\ store'.Status = store.Status
       /\ store' # store =>
              \E p \in Procs :
                  /\ proc[p].pc = "update"
                  /\ proc'[p].nUpdates = proc[p].nUpdates + 1
                  /\ store' = [store EXCEPT !.Description = proc[p].newDesc]
       /\ \A p \in Procs :
              (proc'[p].pc = "done" /\ ~proc'[p].ret.isNil) =>
                  /\ proc'[p].ret.ID = PinnedID
                  /\ proc'[p].ret.Status = store.Status]_vars

\* A Detach stripped the overlay of a record of status "open", and after it
\* another call failed in its Update: the status is "open" as before.
C22_Witness ==
    /\ store.Status = "open"
    /\ store.Description # original
    /\ \E p \in Procs : Succeeded(p) /\ Wrote(p) /\ proc[p].ret.Status = "open"
    /\ \E q \in Procs : proc[q].pc = "done" /\ "update" \in proc[q].failed

\* The call of p fetched a record that carries an attachment overlay.
FoundOverlay(p) ==
    ~proc[p].issue.isNil /\ ~ParseAttachmentFields(proc[p].issue).isNil

\* C25: an Attach that fetched a record of another status than "pinned"
\* returns the not-pinned error without an Update; a Detach that fetched a
\* record with an overlay, of whatever status, and met no failing Show or
\* Update, returns without error having persisted the stripped description
\* (the record Unattached, nobody else having written since);
\* every audit entry carries the status fetched as PreviousState and as
\* Operation the one of the options, "detach" when they name none.
C25_DetachAnyStatus ==
    /\ \A p \in Procs :
          /\ (proc[p].pc = "done" /\ proc[p].op = "AttachMolecule"
                  /\ ~proc[p].issue.isNil
                  /\ proc[p].issue.Status # StatusPinned) =>
                 /\ proc[p].err = ErrNotPinned(proc[p].issue.Status)
                 /\ proc[p].nUpdates = 0
          /\ (proc[p].pc = "done" /\ proc[p].op \in DetachOps /\ FoundOverlay(p)
                  /\ proc[p].failed \subseteq {"audit"}) =>
                 /\ Succeeded(p)
                 /\ Wrote(p)
                 /\ proc[p].ret.Status = proc[p].issue.Status
                 /\ ~foreignWrite[p] =>
                        /\ Unattached
                        /\ ParseAttachmentFields(proc[p].ret).isNil
                        /\ store.Status = proc[p].issue.Status
          /\ (proc[p].op = "DetachMoleculeWithAudit" /\ FoundOverlay(p)) =>
                 /\ proc[p].entry.PreviousState = proc[p].issue.Status
                 /\ proc[p].entry.Operation =
                        IF proc[p].opts.Operation = "" THEN "detach"
                        ELSE proc[p].opts.Operation
    /\ \A i \in 1..Len(auditLog) :
          /\ auditLog[i].PreviousState = store.Status
          /\ auditLog[i].Operation \in {"detach", "burn"}

\* DetachMoleculeWithAudit, its options naming no operation, stripped the
\* overlay of a record of status "open" and logged it.
C25_Witness ==
    \E p \in Procs :
        /\ Succeeded(p)
        /\ proc[p].op = "DetachMoleculeWithAudit"
        /\ proc[p].opts.Operation = ""
        /\ proc[p].issue.Status = "open"
        /\ Wrote(p)
        /\ Unattached
        /\ store.Status = "open"
        /\ Len(auditLog) = 1
        /\ auditLog[1].Operation = "detach"
        /\ auditLog[1].PreviousState = "open"

\* The value of a "key: value" line, trimmed.
ValueOfLine(line) ==
    LET t == TrimSpace(line)
    IN  TrimSpace(SliceFrom(t, Index(t, ":") + 1))

\* The lines of description that give attached_molecule a value.
MoleculeLines(description) ==
    LET lines == Split(description)
    IN  {i \in 1..Len(lines) :
            HasKeyIn(lines[i], MoleculeKeys) /\ ValueOfLine(lines[i]) # << >>}

\* The value of the last of them, "" when there is none.
LastMolecule(description) ==
    LET S == MoleculeLines(description)
    IN  IF S = {} THEN << >>
        ELSE ValueOfLine(Split(description)[CHOOSE i \in S : \A j \in S : j <= i])

\* C26: the audit entry of a DetachMoleculeWithAudit call names the record
\* asked for and, as detached molecule, the value of the last
\* attached_molecule line of the description the call fetched; when nobody
\* else wrote between the fetch and the Update, and nobody since, the stored
\* description is the fetched one without its overlay and has no
\* attached_molecule line; a call makes at most one append, a call that
\* found no overlay none, and the log grows by no more entries than appends
\* were made (by the call of a caller on its own since it began, by the
\* calls of callers who call once each in all).
C26_AuditNamesDetached ==
    /\ \A p \in Procs :
          proc[p].op = "DetachMoleculeWithAudit" =>
              /\ proc[p].nAppendCalls <= 1
              /\ FoundOverlay(p) =>
                     /\ proc[p].entry.DetachedMolecule =
                            LastMolecule(proc[p].issue.Description)
                     /\ proc[p].entry.PinnedBeadID = proc[p].issue.ID
                     /\ proc[p].entry.PinnedBeadID = PinnedID
              /\ ~FoundOverlay(p) =>
                     proc[p].entry = NoEntry /\ proc[p].nAppendCalls = 0
              /\ (Wrote(p) /\ ~proc[p].stale /\ ~foreignWrite[p]) =>
                     /\ store.Description =
                            SetAttachmentFields(proc[p].issue, NilAttachmentFields)
                     /\ MoleculeLines(store.Description) = {}
              /\ (proc[p].nAppendCalls = 1 /\ "audit" \notin proc[p].failed) =>
                     EntryLogged(p)
    /\ \A p \in Procs :
          Alone(p) => Len(auditLog) <= proc[p].logBefore + proc[p].nAppendCalls
    /\ (\A p \in Procs : ~Alone(p)) =>
          Len(auditLog) <= proc["p1"].nAppendCalls + proc["p2"].nAppendCalls
    /\ \A i \in 1..Len(auditLog) : auditLog[i].PinnedBeadID = PinnedID

\* A DetachMoleculeWithAudit on a description with two attached_molecule
\* lines: the one entry in the log names the molecule of the second, and the
\* stored record has neither line.
C26_Witness ==
    \E p \in Procs :
        /\ Succeeded(p)
        /\ proc[p].op = "DetachMoleculeWithAudit"
        /\ proc[p].issue.Description = DescScattered
        /\ Wrote(p) /\ ~proc[p].stale /\ ~foreignWrite[p]
        /\ auditLog = <<proc[p].entry>>
        /\ auditLog[1].DetachedMolecule = M2
        /\ store.Description = Prose

(***************************************************************************)
(* The codec functions called on their own                                 *)
(*                                                                         *)
(* A caller holds a text and a field set and applies the parse, format and *)
(* merge functions of one schema to them, in any order.                    *)
(***************************************************************************)
MaxLines == 5      \* lines of the text the caller starts from
MaxOps == 3        \* codec calls the caller makes

Schemas == {"attachment", "mr"}

Blank1 == <<" ">>
Indented == <<" ", " ">> \o Prose
Foo == <<"f","o","o">>
Main == <<"m","a","i","n">>
Padded == <<" ">> \o Args
TwoLines == <<"a", NL, "b">>
k_Source_dash_Issue ==
    <<"S","o","u","r","c","e","-","I","s","s","u","e">>

\* The lines a text is drawn from, in the order they appear in it: blank
\* lines, prose with leading white space, key lines of the schema under
\* their canonical and alias spellings, a line with a foreign key, a schema
\* key with an empty value.
AttachmentLines ==
    <<Blank1,
      Line(k_attached_molecule, ColonSpace, M1),
      Indented,
      << >>,
      Line(k_ATTACHEDAT, <<" ", ":", " ">>, currentTimestamp(0)),
      OtherKeyLine,
      Line(k_attachedargs, <<":">>, << >>)>>

MRLines ==
    <<Blank1,
      Line(k_branch, ColonSpace, Foo),
      Indented,
      << >>,
      Line(k_Source_dash_Issue, <<" ", ":", " ">>, M1),
      OtherKeyLine,
      Line(k_rig, <<":">>, << >>)>>

\* The elements of lines at the positions in S, in order.
Pick(lines, S) ==
    [k \in 1..Cardinality(S) |->
        lines[CHOOSE i \in S : Cardinality({j \in S : j < i}) = k - 1]]

\* The texts of at most MaxLines lines drawn from lines.
TextsOf(lines) ==
    {Text(Pick(lines, S)) :
        S \in {R \in SUBSET (1..Len(lines)) : Cardinality(R) <= MaxLines}}

\* Field sets: nil, all fields empty, typical values (a timestamp contains
\* colons), every field set, a value with leading white space, a value of
\* white space only, a value of two lines.
AttachmentFieldSets ==
    {NilAttachmentFields,
     MkAttachmentFields(<< >>, << >>, << >>),
     MkAttachmentFields(M1, currentTimestamp(0), << >>),
     MkAttachmentFields(M2, currentTimestamp(1), Args),
     MkAttachmentFields(M1, << >>, Padded),
     MkAttachmentFields(<< >>, << >>, Blank1),
     MkAttachmentFields(M1, << >>, TwoLines)}

MRFieldSets ==
    {NilMRFields,
     EmptyMRFields,
     MkMRFields(Foo, Main, << >>, << >>, << >>, << >>, << >>),
     MkMRFields(Foo, Main, M1, Prose, Foo, M2, currentTimestamp(1)),
     MkMRFields(Padded, Main, << >>, << >>, << >>, << >>, << >>),
     MkMRFields(<< >>, << >>, << >>, Blank1, << >>, << >>, << >>),
     MkMRFields(Foo, << >>, << >>, << >>, << >>, << >>, TwoLines)}

\* The functions of a schema.
Parse(schema, issue) ==
    IF schema = "attachment" THEN ParseAttachmentFields(issue)
    ELSE ParseMRFields(issue)

Format(schema, fields) ==
    IF schema = "attachment" THEN FormatAttachmentFields(fields)
    ELSE FormatMRFields(fields)

Merge(schema, issue, fields) ==
    IF schema = "attachment" THEN SetAttachmentFields(issue, fields)
    ELSE SetMRFields(issue, fields)

KeysOf(schema) == IF schema = "attachment" THEN attachmentKeys ELSE mrKeys

\* The issue a caller passes: only its Description is read.
IssueOf(text) == MkIssue(PinnedID, "open", text)

CodecStart(schema, text, fields) ==
    [schema |-> schema, text |-> text, fields |-> fields,
     textIn |-> text, fieldsIn |-> fields, ops |-> << >>]

\* Texts whose key lines stand in the reverse of the order of the schema.
AttachmentReversed ==
    Text(<<Line(k_attached_args, ColonSpace, Args),
           Line(k_attached_at, ColonSpace, currentTimestamp(0)),
           Line(k_attached_molecule, ColonSpace, M1)>>)

MRReversed ==
    Text(<<Line(k_close_reason, ColonSpace, Prose),
           Line(k_rig, ColonSpace, Foo),
           Line(k_source_issue, ColonSpace, M1),
           Line(k_target, ColonSpace, Main),
           Line(k_branch, ColonSpace, Foo)>>)

CodecInit ==
    /\ BeadsInit({[Status |-> StatusPinned, Description |-> DescEmpty]})
    /\ LogIdle
    /\ \/ codec \in {CodecStart("attachment", t, f) :
                        t \in TextsOf(AttachmentLines) \cup {AttachmentReversed},
                        f \in AttachmentFieldSets}
       \/ codec \in {CodecStart("mr", t, f) :
                        t \in TextsOf(MRLines) \cup {MRReversed}, f \in MRFieldSets}

\* The caller applied op: text and fields are the registers after the call,
\* textIn and fieldsIn the registers it was applied to.
CodecCall(op, text, fields) ==
    /\ codec.schema \in Schemas
    /\ Len(codec.ops) < MaxOps
    /\ codec' = [codec EXCEPT !.text = text, !.fields = fields,
                              !.textIn = codec.text, !.fieldsIn = codec.fields,
                              !.ops = Append(@, op)]
    /\ UNCHANGED <<beadsVars, logVars>>

\* fields := ParseXFields(&Issue{Description: text})
CodecParse ==
    CodecCall("parse", codec.text, Parse(codec.schema, IssueOf(codec.text)))

\* text := FormatXFields(fields)
CodecFormat ==
    CodecCall("format", Format(codec.schema, codec.fields), codec.fields)

\* text := SetXFields(&Issue{Description: text}, fields)
CodecMerge ==
    CodecCall("merge", Merge(codec.schema, IssueOf(codec.text), codec.fields),
              codec.fields)

CodecNext ==
    \/ CodecParse
    \/ CodecFormat
    \/ CodecMerge

CodecSpec == CodecInit /\ [][CodecNext]_vars

(***************************************************************************)
(* Properties of the codec                                                 *)
(***************************************************************************)
\* The last call the caller made, "" before the first.
LastOp == IF codec.ops = << >> THEN "" ELSE codec.ops[Len(codec.ops)]

\* The last two calls were a, then b.
LastTwo(a, b) ==
    /\ Len(codec.ops) >= 2
    /\ codec.ops[Len(codec.ops) - 1] = a
    /\ codec.ops[Len(codec.ops)] = b

\* The lines of a text; the empty text has none.
Lines(text) == IF text = << >> THEN << >> ELSE Split(text)

IsBlank(line) == \A i \in 1..Len(line) : IsSpace(line[i])

\* lines without the blank lines at its start and at its end.
TrimBlankEdges(lines) ==
    IF \A i \in 1..Len(lines) : IsBlank(lines[i]) THEN << >>
    ELSE LET first == CHOOSE i \in 1..Len(lines) :
                          ~IsBlank(lines[i]) /\ \A j \in 1..(i-1) : IsBlank(lines[j])
             last  == CHOOSE i \in 1..Len(lines) :
                          ~IsBlank(lines[i]) /\ \A j \in (i+1)..Len(lines) : IsBlank(lines[j])
         IN  SubSeq(lines, first, last)

\* The surviving content of text under a schema: its lines that are not
\* "key: ..." lines with a key of the schema, as they stand and in their
\* order, less the blank lines at the start and at the end.
Survivors(text, schema) ==
    LET Keep(line) == ~HasKeyIn(line, KeysOf(schema))
    IN  TrimBlankEdges(SelectSeq(Lines(text), Keep))

\* The values of a field set.
ValuesOf(fields) == {fields[k] : k \in DOMAIN fields \ {"isNil"}}

NonEmpty(fields) == ~fields.isNil /\ \E v \in ValuesOf(fields) : v # << >>

\* A value on one line that starts and ends with a character that is not
\* white space (or is empty).
CleanValue(v) ==
    /\ \A i \in 1..Len(v) : v[i] # NL
    /\ v # << >> => ~IsSpace(v[1]) /\ ~IsSpace(v[Len(v)])

Clean(fields) == \A v \in ValuesOf(fields) : CleanValue(v)

\* C7: after merge(T, F, S) the text ends with the surviving content of T
\* (every line of T that is not a key line of S, verbatim, in order, interior
\* blank lines kept, blank lines at its start and end removed); before it
\* stand the lines of format(F) and, when both are non-empty, one blank line,
\* and nothing else.
C7_MergePreservesContent ==
    LastOp = "merge" =>
        LET surv == Survivors(codec.textIn, codec.schema)
            fmt  == Lines(Format(codec.schema, codec.fieldsIn))
            out  == Lines(codec.text)
            sep  == IF fmt # << >> /\ surv # << >> THEN 1 ELSE 0
        IN  /\ Len(out) = Len(fmt) + sep + Len(surv)
            /\ SubSeq(out, 1, Len(fmt)) = fmt
            /\ sep = 1 => out[Len(fmt) + 1] = << >>
            /\ SubSeq(out, Len(fmt) + sep + 1, Len(out)) = surv

\* A merge into a text with a blank first line, key lines of the schema, and
\* surviving content that holds an indented line and an interior blank line.
C7_Witness ==
    /\ LastOp = "merge"
    /\ NonEmpty(codec.fieldsIn)
    /\ LET in   == Lines(codec.textIn)
           surv == Survivors(codec.textIn, codec.schema)
       IN  /\ Len(in) = MaxLines
           /\ IsBlank(in[1])
           /\ \E i \in 1..Len(in) : HasKeyIn(in[i], KeysOf(codec.schema))
           /\ Len(surv) = 3
           /\ surv[1] = Indented
           /\ surv[2] = << >>
           /\ Lines(codec.text)[Len(Lines(codec.text))] = surv[3]

\* C8 as stated: for any non-empty field set F, parse(format(F)) = F, and
\* formatting the parse result gives format(F) again.
C8_RoundTrip ==
    (LastTwo("format", "parse") /\ NonEmpty(codec.fieldsIn)) =>
        /\ codec.fields = codec.fieldsIn
        /\ Format(codec.schema, codec.fields) = codec.textIn

\* C8: for any non-empty field set F whose values are on one line and
\* neither start nor end with white space, parse(format(F)) = F, and
\* formatting the parse result gives format(F) again.
C8_RoundTripOfCleanValues ==
    (LastTwo("format", "parse") /\ NonEmpty(codec.fieldsIn)
        /\ Clean(codec.fieldsIn)) =>
        /\ codec.fields = codec.fieldsIn
        /\ Format(codec.schema, codec.fields) = codec.textIn

\* format then parse of a field set of several fields, one with colons in
\* its value.
C8_Witness ==
    /\ LastTwo("format", "parse")
    /\ NonEmpty(codec.fieldsIn)
    /\ Clean(codec.fieldsIn)
    /\ \E v \in ValuesOf(codec.fieldsIn) : Index(v, ":") # -1
    /\ Len(Lines(codec.textIn)) >= 2
    /\ codec.fields = codec.fieldsIn

\* The fields of a schema with their canonical names, in the order the
\* schema declares them.
SchemaOrder(schema) ==
    IF schema = "attachment"
    THEN <<[name |-> k_attached_molecule, field |-> "AttachedMolecule"],
           [name |-> k_attached_at, field |-> "AttachedAt"],
           [name |-> k_attached_args, field |-> "AttachedArgs"]>>
    ELSE <<[name |-> k_branch, field |-> "Branch"],
           [name |-> k_target, field |-> "Target"],
           [name |-> k_source_issue, field |-> "SourceIssue"],
           [name |-> k_worker, field |-> "Worker"],
           [name |-> k_rig, field |-> "Rig"],
           [name |-> k_merge_commit, field |-> "MergeCommit"],
           [name |-> k_close_reason, field |-> "CloseReason"]>>

\* The fields of the schema that have a value in fields, in schema order.
FieldsSet(schema, fields) ==
    LET HasValue(e) == fields[e.field] # << >>
    IN  IF fields.isNil THEN << >> ELSE SelectSeq(SchemaOrder(schema), HasValue)

\* C23: format gives "canonicalName: value" for each field that has a
\* value and nothing for the others, in the order of the schema and joined
\* by newlines, wherever the values came from; a nil field set and one with
\* no value give the empty string; with values of one line each there are
\* as many lines as fields with a value.
C23_FormatInSchemaOrder ==
    LastOp = "format" =>
        LET set == FieldsSet(codec.schema, codec.fieldsIn)
        IN  /\ codec.text =
                   Join([i \in 1..Len(set) |->
                            set[i].name \o ColonSpace \o codec.fieldsIn[set[i].field]],
                        <<NL>>)
            /\ ~NonEmpty(codec.fieldsIn) => codec.text = << >>
            /\ Clean(codec.fieldsIn) => Len(Lines(codec.text)) = Len(set)

\* The fields parsed from a text that lists close_reason first and branch
\* last were formatted: branch comes first, close_reason last.
C23_Witness ==
    /\ LastTwo("parse", "format")
    /\ codec.schema = "mr"
    /\ codec.fieldsIn = MkMRFields(Foo, Main, M1, << >>, Foo, << >>, Prose)
    /\ Lines(codec.text)[1] = Line(k_branch, ColonSpace, Foo)
    /\ Lines(codec.text)[5] = Line(k_close_reason, ColonSpace, Prose)

\* C24: the text merge returns is, with formatted = format(F) and other =
\* the surviving content of T joined by newlines: empty when both are empty,
\* other when formatted is empty, formatted when other is empty, and
\* otherwise formatted, one empty line, other; it neither starts nor ends
\* with a blank line.
C24_MergeFourCases ==
    LastOp = "merge" =>
        LET formatted == Format(codec.schema, codec.fieldsIn)
            other     == Join(Survivors(codec.textIn, codec.schema), <<NL>>)
            out       == Lines(codec.text)
        IN  /\ (formatted = << >> /\ other = << >>) => codec.text = << >>
            /\ (formatted = << >> /\ other # << >>) => codec.text = other
            /\ (formatted # << >> /\ other = << >>) => codec.text = formatted
            /\ (formatted # << >> /\ other # << >>) =>
                   codec.text = formatted \o <<NL, NL>> \o other
            /\ codec.text # << >> =>
                   ~IsBlank(out[1]) /\ ~IsBlank(out[Len(out)])

\* A merge of fields into a text that starts with a blank line and ends
\* with a key line of the schema: the formatted block, an empty line, and
\* the other content.
C24_Witness ==
    /\ LastOp = "merge"
    /\ Len(codec.ops) = 1
    /\ NonEmpty(codec.fieldsIn)
    /\ LET in    == Lines(codec.textIn)
           other == Join(Survivors(codec.textIn, codec.schema), <<NL>>)
       IN  /\ in # << >>
           /\ IsBlank(in[1])
           /\ HasKeyIn(in[Len(in)], KeysOf(codec.schema))
           /\ other # << >>
           /\ codec.text =
                  Format(codec.schema, codec.fieldsIn) \o <<NL, NL>> \o other

(***************************************************************************)
(* Key matching: one "key: value" line under every spelling of its key     *)
(***************************************************************************)
ToUpperChar(c) ==
    LET i == Index(LowerLetters, c)
    IN  IF i = -1 THEN c ELSE UpperLetters[i + 1]

ToUpper(s) == [i \in 1..Len(s) |-> ToUpperChar(s[i])]

\* The spellings of a key a description is written with: as in the schema,
\* in capitals, with a capital first letter.
Spellings(key) == {key, ToUpper(key), <<ToUpperChar(key[1])>> \o Tail(key)}

\* The aliases of each field, as the documentation of the schemas lists them.
AttachmentAliases ==
    [AttachedMolecule |-> MoleculeKeys, AttachedAt |-> AtKeys,
     AttachedArgs |-> ArgsKeys]

MRAliases ==
    [Branch |-> {k_branch}, Target |-> {k_target},
     SourceIssue |-> {k_source_issue, k_source_dash_issue, k_sourceissue},
     Worker |-> {k_worker}, Rig |-> {k_rig},
     MergeCommit |-> {k_merge_commit, k_merge_dash_commit, k_mergecommit},
     CloseReason |-> {k_close_reason, k_close_dash_reason, k_closereason}]

AliasesOf(schema) == IF schema = "attachment" THEN AttachmentAliases ELSE MRAliases

k_note == <<"n","o","t","e">>
k_attached == <<"a","t","t","a","c","h","e","d">>
k_attached_molecules == k_attached_molecule \o <<"s">>
k_branches == k_branch \o <<"e","s">>

\* Keys of no alias set of the schema: a foreign key, a prefix of a schema
\* key, a schema key with a letter added, a key of the other schema.
ForeignKeys(schema) ==
    IF schema = "attachment"
    THEN {k_note, k_attached, k_attached_molecules, k_branch, k_Source_dash_Issue}
    ELSE {k_note, k_branches, k_attached_at, k_Attached_dash_Molecule,
          <<"s","o","u","r","c","e">>}

\* One line to parse or merge: its key as written, the field the key stands
\* for ("none" for a foreign key), and whether the line stands alone or
\* indented below a line of prose, with white space around key and value.
KeyCases ==
    UNION {
        {[schema |-> sch, key |-> k, field |-> f, framed |-> fr] :
            k \in UNION {Spellings(a) : a \in AliasesOf(sch)[f]},
            fr \in BOOLEAN} :
        <<sch, f>> \in {x \in Schemas \X {"AttachedMolecule", "AttachedAt",
                            "AttachedArgs", "Branch", "Target", "SourceIssue",
                            "Worker", "Rig", "MergeCommit", "CloseReason"} :
                            x[2] \in DOMAIN AliasesOf(x[1])}}
    \cup UNION {
        {[schema |-> sch, key |-> k, field |-> "none", framed |-> fr] :
            k \in ForeignKeys(sch), fr \in BOOLEAN} : sch \in Schemas}

KeyLine(c) ==
    IF c.framed THEN <<" ">> \o c.key \o <<" ", ":">> \o Foo \o <<" ">>
    ELSE Line(c.key, ColonSpace, Foo)

KeyText(c) == IF c.framed THEN Text(<<Prose, KeyLine(c)>>) ELSE Text(<<KeyLine(c)>>)

KeyInit ==
    /\ BeadsInit({[Status |-> StatusPinned, Description |-> DescEmpty]})
    /\ LogIdle
    /\ \E c \in KeyCases :
          \E f \in IF c.schema = "attachment"
                       THEN {NilAttachmentFields,
                             MkAttachmentFields(M1, currentTimestamp(0), << >>)}
                       ELSE {NilMRFields,
                             MkMRFields(Main, Main, << >>, << >>, << >>, << >>, << >>)} :
              codec = CodecStart(c.schema, KeyText(c), f)

KeySpec == KeyInit /\ [][CodecNext]_vars

\* The field set with the one field holding value.
OnlyField(schema, field, value) ==
    IF schema = "attachment"
    THEN [MkAttachmentFields(<< >>, << >>, << >>) EXCEPT ![field] = value]
    ELSE [EmptyMRFields EXCEPT ![field] = value]

NilFields(schema) ==
    IF schema = "attachment" THEN NilAttachmentFields ELSE NilMRFields

\* The caller's first call was op, on the line of case c.
FirstCallOn(op, c) ==
    /\ codec.ops = <<op>>
    /\ codec.schema = c.schema
    /\ codec.textIn = KeyText(c)

\* C21: a line whose key is an alias of a field, in any letter case and
\* with white space around it, parses to that field with the trimmed value
\* and is dropped by merge; a line whose key is in no alias set parses to
\* no field and stands in the merged text as it was written.
C21_KeysCaseInsensitive ==
    \A c \in KeyCases :
        /\ FirstCallOn("parse", c) =>
               codec.fields = IF c.field = "none" THEN NilFields(c.schema)
                              ELSE OnlyField(c.schema, c.field, Foo)
        /\ FirstCallOn("merge", c) =>
               LET fmt  == Lines(Format(c.schema, codec.fieldsIn))
                   rest == (IF c.framed THEN <<Prose>> ELSE << >>)
                           \o (IF c.field = "none" THEN <<KeyLine(c)>> ELSE << >>)
                   sep  == IF fmt # << >> /\ rest # << >> THEN << << >> >> ELSE << >>
               IN  Lines(codec.text) = fmt \o sep \o rest

\* 'Attached-Molecule' below a line of prose was parsed to the molecule
\* field.
C21_Witness ==
    /\ codec.ops = <<"parse">>
    /\ codec.schema = "attachment"
    /\ codec.textIn =
           Text(<<Prose, <<" ">> \o <<ToUpperChar("a")>> \o Tail(k_attached_dash_molecule)
                         \o <<" ", ":">> \o Foo \o <<" ">>>>)
    /\ codec.fields = MkAttachmentFields(Foo, << >>, << >>)

(***************************************************************************)
(* events: Log and write, called by the goroutines of one process          *)
(***************************************************************************)
MaxThreads == 3    \* goroutines of the process that call events.Log

Threads == 1..MaxThreads

\* data of write: json.Marshal(event) and '\n'.  The event of goroutine t is
\* told from the others by t; a byte of the file is [call, byte], call being
\* the goroutine whose write(2) put it there.
EventData(t) ==
    <<[call |-> t, byte |-> "{"], [call |-> t, byte |-> "}"],
      [call |-> t, byte |-> NL]>>

\* workspace.FindFromCwd(): an error, no town root, or a town root.
FindFromCwdResults == {"err", "", "/gt"}

\* pc: "idle", "lock" (at mutex.Lock), "open" (at os.OpenFile), "write" (in
\* f.Write), "close" (at the deferred f.Close), "unlock" (at the deferred
\* mutex.Unlock), "done" (Log returned err).  n: bytes of data written.
\* townRoot: what workspace.FindFromCwd() returned, "unset" before the call.
IdleThread ==
    [pc |-> "idle", townRoot |-> "unset", data |-> << >>, n |-> 0,
     err |-> "nil", opened |-> FALSE]

LogInit ==
    /\ BeadsInit({[Status |-> StatusPinned, Description |-> DescEmpty]})
    /\ codec = CodecIdle
    /\ eventsFile \in {[exists |-> e, bytes |-> << >>] : e \in BOOLEAN}
    /\ mutex = Unlocked
    /\ thread = [t \in Threads |-> IdleThread]

\* write returns err.
LogReturn(self, err) == [self EXCEPT !.pc = "done", !.err = err]

\* Log and write going on to the append whatever FindFromCwd returned.
LogAnywhere(t) ==
    /\ thread[t].pc = "idle"
    /\ \E townRoot \in FindFromCwdResults, marshalOk \in BOOLEAN :
        thread' = [thread EXCEPT ![t] =
            IF ~marshalOk
            THEN LogReturn([@ EXCEPT !.townRoot = townRoot], "marshaling event")
            ELSE [@ EXCEPT !.townRoot = townRoot, !.pc = "lock",
                           !.data = EventData(t)]]
    /\ UNCHANGED <<beadsVars, codecVars, eventsFile, mutex>>

\* Log builds the event; write up to its mutex.Lock() call.
Log(t) ==
    /\ thread[t].pc = "idle"
    /\ \E townRoot \in FindFromCwdResults, marshalOk \in BOOLEAN :
        thread' = [thread EXCEPT ![t] =
            IF townRoot = "err" \/ townRoot = ""
            THEN LogReturn([@ EXCEPT !.townRoot = townRoot], "nil")
            ELSE IF ~marshalOk
            THEN LogReturn([@ EXCEPT !.townRoot = townRoot], "marshaling event")
            ELSE [@ EXCEPT !.townRoot = townRoot, !.pc = "lock",
                           !.data = EventData(t)]]
    /\ UNCHANGED <<beadsVars, codecVars, eventsFile, mutex>>

\* mutex.Lock() taking the mutex whoever holds it.
LockNoWait(t) ==
    /\ thread[t].pc = "lock"
    /\ mutex' = t
    /\ thread' = [thread EXCEPT ![t].pc = "open"]
    /\ UNCHANGED <<beadsVars, codecVars, eventsFile>>

\* mutex.Lock()
Lock(t) ==
    /\ thread[t].pc = "lock"
    /\ mutex = Unlocked
    /\ mutex' = t
    /\ thread' = [thread EXCEPT ![t].pc = "open"]
    /\ UNCHANGED <<beadsVars, codecVars, eventsFile>>

\* os.OpenFile(eventsPath, O_APPEND|O_CREATE|O_WRONLY, 0644)
OpenFile(t) ==
    /\ thread[t].pc = "open"
    /\ \E ok \in BOOLEAN :
        IF ok
        THEN /\ eventsFile' = [eventsFile EXCEPT !.exists = TRUE]
             /\ thread' = [thread EXCEPT ![t].pc = "write", ![t].opened = TRUE]
        ELSE /\ eventsFile' = eventsFile
             /\ thread' = [thread EXCEPT ![t].pc = "unlock",
                                         ![t].err = "opening events file"]
    /\ UNCHANGED <<beadsVars, codecVars, mutex>>

\* f.Write(data): one write(2) of the loop of the runtime, which appends
\* k of the remaining bytes at the end of the file (O_APPEND) or fails; Write
\* returns when all of data is written or a write(2) failed.
Write(t) ==
    /\ thread[t].pc = "write"
    /\ LET self == thread[t]
       IN  \E k \in 0..(Len(self.data) - self.n) :
            IF k = 0
            THEN /\ eventsFile' = eventsFile
                 /\ thread' = [thread EXCEPT ![t].pc = "close",
                                             ![t].err = "writing event"]
            ELSE /\ eventsFile' = [eventsFile EXCEPT !.bytes =
                        @ \o SubSeq(self.data, self.n + 1, self.n + k)]
                 /\ thread' = [thread EXCEPT
                        ![t].n = self.n + k,
                        ![t].pc = IF self.n + k = Len(self.data)
                                  THEN "close" ELSE "write"]
    /\ UNCHANGED <<beadsVars, codecVars, mutex>>

\* defer f.Close()
Close(t) ==
    /\ thread[t].pc = "close"
    /\ thread' = [thread EXCEPT ![t].pc = "unlock"]
    /\ UNCHANGED <<beadsVars, codecVars, eventsFile, mutex>>

\* write unlocking at the end of its successful path only, in place of the
\* deferred mutex.Unlock().
UnlockOnSuccess(t) ==
    /\ thread[t].pc = "unlock"
    /\ mutex' = IF thread[t].err = "nil" THEN Unlocked ELSE mutex
    /\ thread' = [thread EXCEPT ![t] = LogReturn(@, @.err)]
    /\ UNCHANGED <<beadsVars, codecVars, eventsFile>>

\* defer mutex.Unlock(), and the return of write and Log.
Unlock(t) ==
    /\ thread[t].pc = "unlock"
    /\ mutex' = Unlocked
    /\ thread' = [thread EXCEPT ![t] = LogReturn(@, @.err)]
    /\ UNCHANGED <<beadsVars, codecVars, eventsFile>>

LogNext ==
    \/ \E t \in Threads : Log(t)
    \/ \E t \in Threads : Lock(t)
    \/ \E t \in Threads : OpenFile(t)
    \/ \E t \in Threads : Write(t)
    \/ \E t \in Threads : Close(t)
    \/ \E t \in Threads : Unlock(t)

LogSpec == LogInit /\ [][LogNext]_vars

\* The scheduler of the Go runtime runs every runnable goroutine again, and a
\* goroutine blocked in mutex.Lock() gets the mutex once it stays free: a
\* goroutine inside write takes its next step.  Nothing makes a caller call
\* Log.
LogFairness ==
    \A t \in Threads :
        /\ WF_vars(Lock(t))
        /\ WF_vars(OpenFile(t))
        /\ WF_vars(Write(t))
        /\ WF_vars(Close(t))
        /\ WF_vars(Unlock(t))

LogFairSpec == LogInit /\ [][LogNext]_vars /\ LogFairness

(***************************************************************************)
(* Properties of the event log                                             *)
(***************************************************************************)
\* t is inside the open-write-close section.
InSection(t) == thread[t].pc \in {"open", "write", "close", "unlock"}

\* The bytes of the file that t put there, in file order.
BytesOf(t) ==
    LET Mine(b) == b.call = t
    IN  SelectSeq(eventsFile.bytes, Mine)

\* s is the start of data, short of all of it.
IsPartOf(s, data) == Len(s) < Len(data) /\ s = SubSeq(data, 1, Len(s))

\* f.Write of t returned nil.
Written(t) ==
    /\ thread[t].opened
    /\ thread[t].pc \in {"close", "unlock", "done"}
    /\ thread[t].err = "nil"

\* f.Write of t returned an error.
WriteFailed(t) == thread[t].err = "writing event"

\* C9: at most one goroutine at a time is inside the open-write-close
\* section; the bytes of two events are never interleaved in the file; a call
\* whose Write returned has appended exactly its one line; and unless a Write
\* failed, the file is a sequence of whole lines, followed by the start of the
\* line of the goroutine that is in its Write.
C9_EventLogSerialized ==
    LET bytes == eventsFile.bytes
    IN  /\ \A t, u \in Threads : (InSection(t) /\ InSection(u)) => t = u
        /\ \A t \in Threads : InSection(t) <=> mutex = t
        /\ \A i, j, k \in 1..Len(bytes) :
               (i < j /\ j < k /\ bytes[i].call = bytes[k].call) =>
                   bytes[j].call = bytes[i].call
        /\ \A t \in Threads : Written(t) => BytesOf(t) = EventData(t)
        /\ \A t \in Threads :
               \/ BytesOf(t) = << >>
               \/ BytesOf(t) = EventData(t)
               \/ /\ IsPartOf(BytesOf(t), EventData(t))
                  /\ \/ WriteFailed(t)
                     \/ /\ thread[t].pc = "write"
                        /\ bytes[Len(bytes)].call = t

\* One goroutine has written a part of its line, another waits for the
\* mutex, and the file holds the whole line of a third before that part.
C9_Witness ==
    \E t, u, v \in Threads :
        /\ thread[t].pc = "write" /\ thread[t].n = 2
        /\ thread[u].pc = "lock"
        /\ Written(v) /\ thread[v].pc = "done"
        /\ eventsFile.bytes = EventData(v) \o SubSeq(EventData(t), 1, 2)

\* No workspace root was resolved for the call of t.
NoWorkspace(t) == thread[t].townRoot \in {"err", ""}

\* C14: the step in which FindFromCwd fails or returns an empty root for a
\* call is the call's return with nil; it leaves the events file (absent or
\* not, and its bytes) and the mutex as they were, and such a call never
\* holds the mutex and has no byte in the file.
C14_NoWorkspaceIsNoOp ==
    [][\A t \in Threads :
          /\ (thread[t].pc = "idle" /\ NoWorkspace(t)') =>
                 /\ thread'[t].pc = "done"
                 /\ thread'[t].err = "nil"
                 /\ eventsFile' = eventsFile
                 /\ mutex' = mutex
          /\ NoWorkspace(t)' =>
                 /\ mutex' # t
                 /\ ~InSection(t)'
                 /\ ~thread'[t].opened
                 /\ BytesOf(t)' = << >>]_vars

\* A call outside a workspace has returned nil while another goroutine
\* holds the mutex and has not yet opened the file, which does not exist.
C14_Witness ==
    \E t, u \in Threads :
        /\ thread[t].pc = "done" /\ thread[t].townRoot = "err"
        /\ thread[t].err = "nil"
        /\ thread[u].pc = "open" /\ mutex = u
        /\ eventsFile = [exists |-> FALSE, bytes |-> << >>]

\* C15 as stated: Log returns nil to its caller whether or not logging
\* failed, also when the open or the write of the events file failed.
C15_LogReturnsNil ==
    \A t \in Threads :
        (thread[t].pc = "done" /\ thread[t].townRoot = "/gt"
            /\ thread[t].data # << >>) =>
            thread[t].err = "nil"

\* t is inside write, at or after its mutex.Lock() call.
InWrite(t) == thread[t].pc \in {"lock", "open", "write", "close", "unlock"}

\* C16: whenever no goroutine is between Lock and Unlock the mutex is free,
\* whichever way the calls before left the section; and every call that has
\* come to mutex.Lock() returns.
C16_LockReleasedOnEveryPath ==
    /\ []((\A t \in Threads : ~InSection(t)) => mutex = Unlocked)
    /\ \A t \in Threads : InWrite(t) ~> (thread[t].pc = "done")

\* One call failed at the open, one at the write, a third has appended its
\* line; all have returned and the mutex is free.
C16_Witness ==
    \E t, u, v \in Threads :
        /\ thread[t].pc = "done" /\ thread[t].err = "opening events file"
        /\ thread[u].pc = "done" /\ thread[u].err = "writing event"
        /\ thread[v].pc = "done" /\ Written(v)
        /\ mutex = Unlocked

(***************************************************************************)
(* The two logs of one process: callers of the attach/detach transitions   *)
(* and a goroutine calling events.Log, in any interleaving                 *)
(***************************************************************************)
\* A pinned bead that carries an overlay, the clock at its last value; the
\* first goroutine logs an event, the others have returned.
LogsInit ==
    /\ store = [Status |-> StatusPinned, Description |-> DescCanonical]
    /\ original = store.Description
    /\ auditLog = << >>
    /\ auditFs = [dir |-> TRUE, file |-> FALSE]
    /\ now = MaxClock
    /\ proc = [p \in Procs |-> IdleProc]
    /\ foreignWrite = [p \in Procs |-> FALSE]
    /\ calls = [p \in Procs |-> 0]
    /\ faults = 0
    /\ codec = CodecIdle
    /\ eventsFile = [exists |-> FALSE, bytes |-> << >>]
    /\ mutex = Unlocked
    /\ thread = [t \in Threads |->
                    IF t = 1 THEN IdleThread ELSE LogReturn(IdleThread, "nil")]

LogsNext ==
    \/ Next
    \/ LogNext

LogsSpec == LogsInit /\ [][LogsNext]_vars

\* s is a prefix of t.
IsPrefix(s, t) == Len(s) <= Len(t) /\ s = SubSeq(t, 1, Len(s))

AuditFileSystems ==
    {[dir |-> FALSE, file |-> FALSE], [dir |-> TRUE, file |-> FALSE],
     [dir |-> TRUE, file |-> TRUE]}

AuditInit ==
    /\ store \in Records
    /\ original = store.Description
    /\ auditLog = << >>
    /\ auditFs \in AuditFileSystems
    /\ now = 0
    /\ proc = [p \in Procs |-> IdleProc]
    /\ foreignWrite = [p \in Procs |-> FALSE]
    /\ calls = [p \in Procs |-> 0]
    /\ faults = MaxFaults
    /\ codec = CodecIdle
    /\ LogIdle

AuditSpec == AuditInit /\ [][Next]_vars

\* The LogDetachAudit call of p returns in this step.
AuditReturns(p) == proc[p].pc = "audit" /\ proc'[p].pc # "audit"

\* C13 as stated: LogDetachAudit creates the directory and the file when
\* absent, appends the entry and returns no error.
C13_AuditCreatesDirAndFile ==
    [][\A p \in Procs :
          AuditReturns(p) =>
              /\ proc'[p].auditErr = "nil"
              /\ auditFs' = [dir |-> TRUE, file |-> TRUE]
              /\ auditLog' = Append(auditLog, proc[p].entry)]_vars

\* C13: LogDetachAudit creates the file when absent, not its directory.
\* Where the directory exists it leaves the file existing, appends the entry
\* as the last line and returns no error; where the directory does not exist
\* it returns the "opening audit log" error and creates and appends nothing.
C13_AuditCreatesFileOnly ==
    [][\A p \in Procs :
          AuditReturns(p) =>
              IF auditFs.dir
              THEN /\ proc'[p].auditErr = "nil"
                   /\ auditFs' = [dir |-> TRUE, file |-> TRUE]
                   /\ auditLog' = Append(auditLog, proc[p].entry)
              ELSE /\ proc'[p].auditErr = "opening audit log"
                   /\ auditFs' = auditFs
                   /\ auditLog' = auditLog]_vars

\* A detach with audit ran to its end on a workspace without the directory:
\* the append failed at the open, nothing was created or appended.
C13_Witness ==
    \E p \in Procs :
        /\ proc[p].pc = "done" /\ proc[p].err = ErrNil
        /\ proc[p].nAppendCalls = 1
        /\ proc[p].auditErr = "opening audit log"
        /\ auditFs = [dir |-> FALSE, file |-> FALSE]
        /\ auditLog = << >>
        /\ Unattached

====
